---- MODULE Spec2Model ----
(***************************************************************************)
(* Timetable generator: the constraint-satisfaction solver                 *)
(* (src/extras/timetable_csp_hard.py, class TimetableCSP) and the genetic  *)
(* solver (src/genetic_algorithm.py, class GeneticAlgorithmCPUOptimized).  *)
(*                                                                         *)
(* Python lists are sequences (1-based here, 0-based indices are kept      *)
(* where the code computes with them), dicts are records / functions,      *)
(* None is the empty tuple and a value v that may be None is <<v>>.        *)
(* Weights are stored in tenths (the sliders step by 0.1), penalties of    *)
(* the CSP in hundredths, so the arithmetic is exact integer arithmetic.   *)
(***************************************************************************)
EXTENDS Integers, Sequences, FiniteSets, TLC

VARIABLES
    self,        \* the solver object's loaded data (_load_data and __init__)
    cspPc,       \* where TimetableCSP.run is: "solving", "returned", "raised"
    idx,         \* _smart_solve: index (1-based) of the assignment in turn
    solution,    \* _smart_solve: the local list `solution`
    placed,      \* per processed assignment, the entries _assign_slot made
    cspResult,   \* what run() handed to its caller: None or <<schedule>>
    runNo,       \* 1 for the first call of run(), 2 for the second
    firstRun,    \* outcome of the first call of run()
    gaPc,        \* where GeneticAlgorithmCPUOptimized.run is
    population,  \* run: the local list `population`
    fitnesses,   \* run: the local list `fitnesses` of the last evaluation
    generation,  \* run: the loop variable `generation`
    fitness_history,         \* run: the trace, one record per generation
    best_overall_fitness,    \* run: the best fitness seen so far
    best_overall_timetable,  \* run: None or <<the individual that scored it>>
    gaResult     \* what run() handed to its caller: None or <<(best, trace)>>

cspVars == <<cspPc, idx, solution, placed, cspResult, runNo, firstRun>>

gaVars == <<gaPc, population, fitnesses, generation, fitness_history,
            best_overall_fitness, best_overall_timetable, gaResult>>

vars == <<self, cspVars, gaVars>>

-----------------------------------------------------------------------------
(* Bounds of the model *)

MaxDays == 2
NumPeriods == 3
MaxAllocations == 2
MaxFixed == 2

-----------------------------------------------------------------------------
(* Python values and list helpers *)

None == <<>>

Some(v) == <<v>>

\* x in list
InList(seq, x) == \E i \in 1..Len(seq) : seq[i] = x

\* list.index(x), 0-based, for x in list
Index(seq, x) ==
    (CHOOSE i \in 1..Len(seq) : seq[i] = x /\ \A j \in 1..(i - 1) : seq[j] # x) - 1

RECURSIVE SumSeq(_)
SumSeq(seq) == IF seq = <<>> THEN 0 ELSE Head(seq) + SumSeq(Tail(seq))

\* [f(x) for x in seq if p(x)] is SelectSeq then a pointwise map
MapSeq(seq, F(_)) == [i \in 1..Len(seq) |-> F(seq[i])]

RECURSIVE Flatten(_)
Flatten(seqs) == IF seqs = <<>> THEN <<>> ELSE Head(seqs) \o Flatten(Tail(seqs))

Abs(n) == IF n < 0 THEN -n ELSE n

Range(seq) == {seq[i] : i \in 1..Len(seq)}

-----------------------------------------------------------------------------
(* The catalogue the solvers load *)

DayNames == <<"Mon", "Tue", "Wed", "Thu", "Fri">>

PeriodNames == <<"P0", "P1", "P2", "P3", "P4", "P5">>

BatchIds == {1, 2}

FacultyIds == {1, 2}

\* batches: id -> row of table batches
batches == [b \in BatchIds |-> [id |-> b, number_of_students |-> b]]

\* subjects: id -> row of table subjects
subjects ==
    [s \in {1, 2, 3, 4, 5} |->
        CASE s = 1 -> [id |-> 1, subject_type |-> "theory", credits |-> 3,
                       theory_hours |-> 1, lab_hours |-> 0]
          [] s = 2 -> [id |-> 2, subject_type |-> "practical", credits |-> 3,
                       theory_hours |-> 0, lab_hours |-> 2]
          [] s = 3 -> [id |-> 3, subject_type |-> "theory", credits |-> 4,
                       theory_hours |-> 2, lab_hours |-> 0]
          [] s = 4 -> [id |-> 4, subject_type |-> "theory", credits |-> 4,
                       theory_hours |-> 3, lab_hours |-> 0]
          [] s = 5 -> [id |-> 5, subject_type |-> "theory", credits |-> 3,
                       theory_hours |-> 1, lab_hours |-> 1]]

\* the rows table subject_allocation may hold: one faculty per (batch, subject)
AllocationRows ==
    { [batch_id |-> 1, subject_id |-> 1, faculty_id |-> 2],
      [batch_id |-> 1, subject_id |-> 2, faculty_id |-> 1],
      [batch_id |-> 1, subject_id |-> 3, faculty_id |-> 1],
      [batch_id |-> 2, subject_id |-> 1, faculty_id |-> 1],
      [batch_id |-> 2, subject_id |-> 2, faculty_id |-> 2],
      [batch_id |-> 2, subject_id |-> 3, faculty_id |-> 2] }

\* the allocations of the selected batches, in table order
AllocationLists ==
    {al \in UNION {[1..n -> AllocationRows] : n \in 1..MaxAllocations} :
        \A i, j \in 1..Len(al) :
            (i # j) => <<al[i].batch_id, al[i].subject_id>>
                        # <<al[j].batch_id, al[j].subject_id>>}

\* rooms: classrooms carry `capacity`, computer labs `computer_capacity`
Classroom(i, c) == [id |-> i, kind |-> "classroom", cap |-> c]

Lab(i, c) == [id |-> i, kind |-> "lab", cap |-> c]

RoomChoices ==
    { [classrooms |-> <<Classroom(1, 2)>>, labs |-> <<>>],
      [classrooms |-> <<Classroom(1, 2)>>, labs |-> <<Lab(1, 2)>>],
      [classrooms |-> <<Classroom(1, 1), Classroom(2, 2)>>, labs |-> <<Lab(2, 1)>>] }

\* the rows table fixed_slots may hold (the form offers the calendar's labels)
FixedRows(days, times) ==
    [batch_id : BatchIds, day : {days[1]}, time_slot : {times[1]},
     subject_id : {1}, faculty_id : {2}, room_id : {1}, room_type : {"classroom"}]

\* the fixed slots of the selected batches, in table order
FixedLists(days, times) ==
    UNION {[1..n -> FixedRows(days, times)] : n \in 0..MaxFixed}

ConstraintNames ==
    {"no_faculty_conflict", "no_batch_conflict", "no_room_conflict", "room_capacity",
     "priority_bias_scheduling", "lab_alternation", "minimize_faculty_gaps",
     "minimize_batch_gaps", "balanced_faculty_load"}

\* default weights, in tenths
DefaultWeight(name) ==
    CASE name \in {"no_faculty_conflict", "no_batch_conflict", "no_room_conflict"} -> 100
      [] name = "room_capacity" -> 80
      [] name \in {"balanced_faculty_load", "lab_alternation",
                   "priority_bias_scheduling"} -> 30
      [] OTHER -> 20

\* db.get_constraints() with the constraints of `off` disabled
Constraints(off) ==
    [name \in ConstraintNames |->
        [enabled |-> name \notin off, weight |-> DefaultWeight(name)]]

\* the sets of disabled constraints the solver is run with
CspDisabledChoices ==
    { {},
      {"no_faculty_conflict", "no_batch_conflict", "no_room_conflict"},
      {"room_capacity", "priority_bias_scheduling", "lab_alternation",
       "minimize_faculty_gaps"} }

-----------------------------------------------------------------------------
(* TimetableCSP: construction *)

\* _define_day_slots: the three divisions as sets of 0-based period indices
slot_divisions(time_slots) ==
    LET num_periods == Len(time_slots)
        morning_end == num_periods \div 3
        noon_end == (num_periods * 2) \div 3
    IN  [morning |-> 0..(morning_end - 1),
         noon |-> morning_end..(noon_end - 1),
         late_noon |-> noon_end..(num_periods - 1)]

\* _get_time_slot_division
_get_time_slot_division(time_slot) ==
    IF ~InList(self.time_slots, time_slot) THEN "unknown"
    ELSE LET time_idx == Index(self.time_slots, time_slot)
             d == slot_divisions(self.time_slots)
         IN  IF time_idx \in d.morning THEN "morning"
             ELSE IF time_idx \in d.noon THEN "noon"
             ELSE IF time_idx \in d.late_noon THEN "late_noon"
             ELSE "unknown"

\* _prepare_slots: every (day, time) in chronological order
_prepare_slots(working_days, time_slots) ==
    [k \in 1..(Len(working_days) * Len(time_slots)) |->
        <<working_days[((k - 1) \div Len(time_slots)) + 1],
          time_slots[((k - 1) % Len(time_slots)) + 1]>>]

\* the assignments one allocation expands to (theory hours, then the lab block)
ExpandAllocation(alloc) ==
    LET subject == subjects[alloc.subject_id]
        theory == [i \in 1..subject.theory_hours |->
                      [batch_id |-> alloc.batch_id, subject_id |-> alloc.subject_id,
                       faculty_id |-> alloc.faculty_id, type |-> "theory",
                       duration |-> 1, index |-> i - 1,
                       priority |-> subject.credits]]
        lab == IF subject.lab_hours > 0
               THEN <<[batch_id |-> alloc.batch_id, subject_id |-> alloc.subject_id,
                       faculty_id |-> alloc.faculty_id, type |-> "lab",
                       duration |-> subject.lab_hours, index |-> 0,
                       priority |-> subject.credits + 2]>>
               ELSE <<>>
    IN  theory \o lab

\* is_fixed of _prepare_assignments
IsFixedAllocation(alloc, fixed_slots) ==
    \E i \in 1..Len(fixed_slots) :
        /\ fixed_slots[i].batch_id = alloc.batch_id
        /\ fixed_slots[i].subject_id = alloc.subject_id
        /\ fixed_slots[i].faculty_id = alloc.faculty_id

\* sorted(..., key=lambda x: (-x['priority'], -x['duration'])): a before b
KeyLess(a, b) ==
    \/ a.priority > b.priority
    \/ a.priority = b.priority /\ a.duration > b.duration

\* Python's sorted is stable: insert x after every element not greater than it
RECURSIVE InsertSorted(_, _)
InsertSorted(sorted, x) ==
    IF sorted = <<>> THEN <<x>>
    ELSE IF KeyLess(x, Head(sorted)) THEN <<x>> \o sorted
    ELSE <<Head(sorted)>> \o InsertSorted(Tail(sorted), x)

RECURSIVE SortedStable(_)
SortedStable(seq) ==
    IF seq = <<>> THEN <<>>
    ELSE InsertSorted(SortedStable(SubSeq(seq, 1, Len(seq) - 1)), seq[Len(seq)])

\* _prepare_assignments
_prepare_assignments(allocations, fixed_slots) ==
    LET kept == SelectSeq(allocations, LAMBDA a : ~IsFixedAllocation(a, fixed_slots))
        temp_assignments == Flatten(MapSeq(kept, ExpandAllocation))
    IN  SortedStable(temp_assignments)

\* __init__ / _load_data of TimetableCSP, for one catalogue
LoadCSP(nd, allocations, rooms, fixed_slots, constraints) ==
    LET working_days == SubSeq(DayNames, 1, nd)
        time_slots == SubSeq(PeriodNames, 1, NumPeriods)
    IN  [working_days |-> working_days,
         time_slots |-> time_slots,
         allocations |-> allocations,
         classrooms |-> rooms.classrooms,
         labs |-> rooms.labs,
         fixed_slots |-> fixed_slots,
         constraint_config |-> constraints,
         slots |-> _prepare_slots(working_days, time_slots),
         assignments |-> _prepare_assignments(allocations, fixed_slots)]

-----------------------------------------------------------------------------
(* TimetableCSP: the solve *)

\* _get_available_rooms; a missing dict key reads as 999
_get_available_rooms(slot_type, batch_size) ==
    LET rooms == IF slot_type = "lab"
                 THEN (IF self.labs # <<>> THEN self.labs ELSE self.classrooms)
                 ELSE self.classrooms
        capacity(r) == IF r.kind = "classroom" THEN r.cap ELSE 999
        computer_capacity(r) == IF r.kind = "lab" THEN r.cap ELSE 999
    IN  IF self.constraint_config["room_capacity"].enabled
        THEN SelectSeq(rooms, LAMBDA r : \/ capacity(r) >= batch_size
                                         \/ computer_capacity(r) >= batch_size)
        ELSE rooms

\* a variant that cuts the block at the last period instead of returning []
_find_consecutive_slots_truncating(start_day, start_time, duration) ==
    IF ~InList(self.working_days, start_day) \/ ~InList(self.time_slots, start_time)
    THEN <<>>
    ELSE LET time_idx == Index(self.time_slots, start_time)
             fit == {i \in 0..(duration - 1) : time_idx + i < Len(self.time_slots)}
         IN  [i \in 1..Cardinality(fit) |->
                 <<start_day, self.time_slots[time_idx + (i - 1) + 1]>>]

\* _find_consecutive_slots: [] when the block runs past the last period
_find_consecutive_slots(start_day, start_time, duration) ==
    IF ~InList(self.working_days, start_day) \/ ~InList(self.time_slots, start_time)
    THEN <<>>
    ELSE LET time_idx == Index(self.time_slots, start_time)
         IN  IF \A i \in 0..(duration - 1) : time_idx + i < Len(self.time_slots)
             THEN [i \in 1..duration |->
                      <<start_day, self.time_slots[time_idx + (i - 1) + 1]>>]
             ELSE <<>>

\* _check_slot_type_constraint: TRUE when the division holds the other type
_check_slot_type_constraint(assignment, slot, current_solution) ==
    LET division == _get_time_slot_division(slot[2])
    IN  \E k \in 1..Len(current_solution) :
            LET entry == current_solution[k]
                entry_type == IF entry.subject_id \in DOMAIN subjects
                              THEN subjects[entry.subject_id].subject_type
                              ELSE "theory"
            IN  /\ entry.batch_id = assignment.batch_id
                /\ entry.day = slot[1]
                /\ _get_time_slot_division(entry.time_slot) = division
                /\ \/ assignment.type = "theory" /\ entry_type = "practical"
                   \/ assignment.type = "lab" /\ entry_type = "theory"

\* a variant without the check
_no_free_period_check(assignment, slot, current_solution) == FALSE

\* _check_consecutive_free_period: TRUE when two neighbours of the sorted
\* period indices of the batch that day (the candidate's start included)
\* are more than 1 apart
_check_consecutive_free_period(assignment, slot, current_solution) ==
    IF ~InList(self.time_slots, slot[2]) THEN FALSE
    ELSE LET time_idx == Index(self.time_slots, slot[2])
             batch_day_times ==
                 {Index(self.time_slots, current_solution[k].time_slot) :
                     k \in {k \in 1..Len(current_solution) :
                              /\ current_solution[k].batch_id = assignment.batch_id
                              /\ current_solution[k].day = slot[1]
                              /\ InList(self.time_slots, current_solution[k].time_slot)}}
             all_times == batch_day_times \cup {time_idx}
         IN  /\ batch_day_times # {}
             /\ \E t1, t2 \in all_times :
                    /\ t2 - t1 > 1
                    /\ ~\E t \in all_times : t1 < t /\ t < t2

\* a variant whose conflict checks pass over the fixed entries of the schedule
_check_hard_constraints_ignoring_fixed(assignment, slot, room_id, current_solution) ==
    LET batch_size == batches[assignment.batch_id].number_of_students
        occupied_slots ==
            IF assignment.duration = 1 THEN <<slot>>
            ELSE _find_consecutive_slots(slot[1], slot[2], assignment.duration)
        all_rooms == self.classrooms \o self.labs
        found == {i \in 1..Len(all_rooms) : all_rooms[i].id = room_id}
        room == all_rooms[CHOOSE i \in found : \A j \in found : i <= j]
    IN  \/ occupied_slots = <<>>
        \/ \E k \in 1..Len(current_solution) :
               LET entry == current_solution[k]
               IN  /\ ~entry.is_fixed
                   /\ InList(occupied_slots, <<entry.day, entry.time_slot>>)
                   /\ \/ /\ self.constraint_config["no_faculty_conflict"].enabled
                         /\ assignment.faculty_id = entry.faculty_id
                      \/ /\ self.constraint_config["no_batch_conflict"].enabled
                         /\ assignment.batch_id = entry.batch_id
                      \/ /\ self.constraint_config["no_room_conflict"].enabled
                         /\ room_id = entry.room_id
        \/ /\ self.constraint_config["room_capacity"].enabled
           /\ found # {}
           /\ room.cap < batch_size
        \/ _check_slot_type_constraint(assignment, slot, current_solution)
        \/ _check_consecutive_free_period(assignment, slot, current_solution)

\* _check_hard_constraints: TRUE when the candidate is rejected
_check_hard_constraints(assignment, slot, room_id, current_solution) ==
    LET batch_size == batches[assignment.batch_id].number_of_students
        occupied_slots ==
            IF assignment.duration = 1 THEN <<slot>>
            ELSE _find_consecutive_slots(slot[1], slot[2], assignment.duration)
        all_rooms == self.classrooms \o self.labs
        found == {i \in 1..Len(all_rooms) : all_rooms[i].id = room_id}
        room == all_rooms[CHOOSE i \in found : \A j \in found : i <= j]
    IN  \/ occupied_slots = <<>>
        \/ \E k \in 1..Len(current_solution) :
               LET entry == current_solution[k]
               IN  /\ InList(occupied_slots, <<entry.day, entry.time_slot>>)
                   /\ \/ /\ self.constraint_config["no_faculty_conflict"].enabled
                         /\ assignment.faculty_id = entry.faculty_id
                      \/ /\ self.constraint_config["no_batch_conflict"].enabled
                         /\ assignment.batch_id = entry.batch_id
                      \/ /\ self.constraint_config["no_room_conflict"].enabled
                         /\ room_id = entry.room_id
        \/ /\ self.constraint_config["room_capacity"].enabled
           /\ found # {}
           /\ room.cap < batch_size
        \/ _check_slot_type_constraint(assignment, slot, current_solution)
        \/ _check_consecutive_free_period(assignment, slot, current_solution)

\* _calculate_soft_constraint_penalty, in hundredths
_calculate_soft_constraint_penalty(assignment, slot, current_solution) ==
    LET cfg == self.constraint_config
        time_idx == IF InList(self.time_slots, slot[2])
                    THEN Index(self.time_slots, slot[2]) ELSE 0
        sameDay(e) == e.day = slot[1]
        priority_bias ==
            IF /\ cfg["priority_bias_scheduling"].enabled
               /\ subjects[assignment.subject_id].credits >= 4
               /\ _get_time_slot_division(slot[2]) = "late_noon"
            THEN cfg["priority_bias_scheduling"].weight * 10 ELSE 0
        lab_count_today ==
            Len(SelectSeq(current_solution, LAMBDA e :
                /\ sameDay(e) /\ e.batch_id = assignment.batch_id
                /\ e.subject_id \in DOMAIN subjects
                /\ subjects[e.subject_id].subject_type = "practical"))
        lab_alternation ==
            IF cfg["lab_alternation"].enabled /\ assignment.type = "lab"
            THEN lab_count_today * cfg["lab_alternation"].weight * 10 ELSE 0
        faculty_day_schedule ==
            SelectSeq(current_solution, LAMBDA e :
                sameDay(e) /\ e.faculty_id = assignment.faculty_id)
        gapOf(e) == Abs(time_idx - Index(self.time_slots, e.time_slot))
        faculty_gaps ==
            IF cfg["minimize_faculty_gaps"].enabled
            THEN SumSeq([k \in 1..Len(faculty_day_schedule) |->
                    IF gapOf(faculty_day_schedule[k]) > 1
                    THEN (gapOf(faculty_day_schedule[k]) - 1)
                         * cfg["minimize_faculty_gaps"].weight * 5
                    ELSE 0])
            ELSE 0
        same_day_theory_count ==
            Len(SelectSeq(current_solution, LAMBDA e :
                /\ e.batch_id = assignment.batch_id /\ sameDay(e)
                /\ e.subject_id = assignment.subject_id
                /\ e.room_type = "classroom"))
        repetition ==
            IF assignment.type = "theory" THEN 5000 * same_day_theory_count ELSE 0
    IN  priority_bias + lab_alternation + faculty_gaps + repetition + time_idx * 10

\* the (slot, room) pairs of _smart_solve's double loop that pass the hard filter
valid_combinations(assignment, current_solution) ==
    LET batch_size == batches[assignment.batch_id].number_of_students
        rooms == _get_available_rooms(assignment.type, batch_size)
        all == [k \in 1..(Len(self.slots) * Len(rooms)) |->
                   <<self.slots[((k - 1) \div Len(rooms)) + 1],
                     rooms[((k - 1) % Len(rooms)) + 1]>>]
    IN  SelectSeq(all, LAMBDA c :
            ~_check_hard_constraints(assignment, c[1], c[2].id, current_solution))

\* a variant that takes the first pair in generation order, whatever its penalty
_select_first_valid_slot(assignment, valid_slots, current_solution) ==
    {valid_slots[1]}

\* a variant whose sort is not stable: any pair of minimum penalty may come first
_select_best_slot_lcv_unstable(assignment, valid_slots, current_solution) ==
    LET penalty == [i \in 1..Len(valid_slots) |->
                       _calculate_soft_constraint_penalty(
                           assignment, valid_slots[i][1], current_solution)]
    IN  {valid_slots[i] : i \in {i \in 1..Len(valid_slots) :
            \A j \in 1..Len(valid_slots) : penalty[i] <= penalty[j]}}

\* _select_best_slot_lcv: the pairs list.sort(key=penalty) can put first; the
\* sort is stable, so it is the first pair of minimum penalty
_select_best_slot_lcv(assignment, valid_slots, current_solution) ==
    LET penalty == [i \in 1..Len(valid_slots) |->
                       _calculate_soft_constraint_penalty(
                           assignment, valid_slots[i][1], current_solution)]
    IN  {valid_slots[i] : i \in {i \in 1..Len(valid_slots) :
            /\ \A j \in 1..Len(valid_slots) : penalty[i] <= penalty[j]
            /\ \A j \in 1..(i - 1) : penalty[j] > penalty[i]}}

\* _assign_slot: one entry per period of the assignment
_assign_slot(assignment, slot, room) ==
    LET entry(day, time) ==
            [batch_id |-> assignment.batch_id, day |-> day, time_slot |-> time,
             subject_id |-> assignment.subject_id,
             faculty_id |-> assignment.faculty_id, room_id |-> room.id,
             room_type |-> IF assignment.type = "lab" THEN "lab" ELSE "classroom",
             is_fixed |-> FALSE]
        consecutive_slots ==
            _find_consecutive_slots(slot[1], slot[2], assignment.duration)
    IN  IF assignment.duration = 1 THEN <<entry(slot[1], slot[2])>>
        ELSE [i \in 1..Len(consecutive_slots) |->
                 entry(consecutive_slots[i][1], consecutive_slots[i][2])]

\* a variant that leaves out a fixed slot whose (day, period) an earlier fixed
\* slot holds
_apply_fixed_slots_skipping ==
    LET keep == SelectSeq(self.fixed_slots, LAMBDA f :
                    \A i \in 1..Len(self.fixed_slots) :
                        ( /\ self.fixed_slots[i].day = f.day
                          /\ self.fixed_slots[i].time_slot = f.time_slot )
                        => self.fixed_slots[i] = f)
    IN  [i \in 1..Len(keep) |->
            [batch_id |-> keep[i].batch_id, day |-> keep[i].day,
             time_slot |-> keep[i].time_slot, subject_id |-> keep[i].subject_id,
             faculty_id |-> keep[i].faculty_id, room_id |-> keep[i].room_id,
             room_type |-> keep[i].room_type, is_fixed |-> TRUE]]

\* _apply_fixed_slots: the fixed slots as schedule entries
_apply_fixed_slots ==
    [i \in 1..Len(self.fixed_slots) |->
        [batch_id |-> self.fixed_slots[i].batch_id, day |-> self.fixed_slots[i].day,
         time_slot |-> self.fixed_slots[i].time_slot,
         subject_id |-> self.fixed_slots[i].subject_id,
         faculty_id |-> self.fixed_slots[i].faculty_id,
         room_id |-> self.fixed_slots[i].room_id,
         room_type |-> self.fixed_slots[i].room_type, is_fixed |-> TRUE]]

-----------------------------------------------------------------------------
(* TimetableCSP.run as a state machine *)

\* no genetic solver has been constructed
GaIdle ==
    /\ gaPc = "idle"
    /\ population = <<>>
    /\ fitnesses = <<>>
    /\ generation = 0
    /\ fitness_history = <<>>
    /\ best_overall_fitness = [num |-> 0, den |-> 1]
    /\ best_overall_timetable = None
    /\ gaResult = None

\* _smart_solve, one iteration of the loop: the assignment in turn is placed
SmartSolveAssign ==
    /\ cspPc = "solving"
    /\ idx <= Len(self.assignments)
    /\ LET assignment == self.assignments[idx]
           valid == valid_combinations(assignment, solution)
       IN  /\ valid # <<>>
           /\ \E best \in _select_best_slot_lcv(assignment, valid, solution) :
                  LET new_entries == _assign_slot(assignment, best[1], best[2])
                  IN  /\ solution' = solution \o new_entries
                      /\ placed' = Append(placed, new_entries)
    /\ idx' = idx + 1
    /\ UNCHANGED <<self, cspPc, cspResult, runNo, firstRun, gaVars>>

\* a variant that skips an assignment with no valid pair and goes on
SmartSolveSkip ==
    /\ cspPc = "solving"
    /\ idx <= Len(self.assignments)
    /\ valid_combinations(self.assignments[idx], solution) = <<>>
    /\ idx' = idx + 1
    /\ placed' = Append(placed, <<>>)
    /\ UNCHANGED <<self, cspPc, solution, cspResult, runNo, firstRun, gaVars>>

\* the exception run raises when _smart_solve returns None, having stopped at
\* `assignment`: its type and args (_smart_solve hands nothing but None to run)
RunError(assignment) ==
    [type |-> "ValueError",
     args |-> <<"Failed to find valid timetable. Try relaxing constraints.">>]

\* _smart_solve returns None for an assignment with no valid pair, and run
\* raises ValueError
SmartSolveFail ==
    /\ cspPc = "solving"
    /\ idx <= Len(self.assignments)
    /\ valid_combinations(self.assignments[idx], solution) = <<>>
    /\ cspPc' = "raised"
    /\ cspResult' = None
    /\ UNCHANGED <<self, idx, solution, placed, runNo, firstRun, gaVars>>

\* the loop is over: _smart_solve returns the solution and run returns it
RunReturn ==
    /\ cspPc = "solving"
    /\ idx > Len(self.assignments)
    /\ cspPc' = "returned"
    /\ cspResult' = Some(solution)
    /\ UNCHANGED <<self, idx, solution, placed, runNo, firstRun, gaVars>>

\* run() is called a second time on the same input
RunAgain ==
    /\ cspPc \in {"returned", "raised"}
    /\ runNo = 1
    /\ firstRun' = Some([outcome |-> cspPc, schedule |-> cspResult])
    /\ runNo' = 2
    /\ cspPc' = "solving"
    /\ idx' = 1
    /\ solution' = _apply_fixed_slots
    /\ placed' = <<>>
    /\ cspResult' = None
    /\ UNCHANGED <<self, gaVars>>

\* the solver object after TimetableCSP(...), run() just entered; the calendar
\* has one working day or MaxDays of them
InitCSP ==
    /\ \E nd \in {1, MaxDays}, allocations \in AllocationLists, rooms \in RoomChoices,
          off \in CspDisabledChoices :
          \E fixed_slots \in FixedLists(SubSeq(DayNames, 1, nd),
                                         SubSeq(PeriodNames, 1, NumPeriods)) :
              self = LoadCSP(nd, allocations, rooms, fixed_slots, Constraints(off))
    /\ cspPc = "solving"
    /\ idx = 1
    /\ solution = _apply_fixed_slots
    /\ placed = <<>>
    /\ cspResult = None
    /\ runNo = 1
    /\ firstRun = None
    /\ GaIdle

NextCSP == SmartSolveAssign \/ SmartSolveFail \/ RunReturn

\* one call of run()
SpecCSP == InitCSP /\ [][NextCSP]_vars

NextCSPTwice == NextCSP \/ RunAgain

\* two calls of run() on the same solver object
SpecCSPTwice == InitCSP /\ [][NextCSPTwice]_vars

\* the sets of disabled constraints of the toggle runs: one hard check off at
\* a time, and every row of the table off
ToggleChoices ==
    { {"no_faculty_conflict"}, {"no_batch_conflict"}, {"no_room_conflict"},
      {"room_capacity"}, ConstraintNames }

\* the solver object of a toggle run, run() just entered; one working day
InitCSPToggles ==
    /\ \E allocations \in AllocationLists, rooms \in RoomChoices, off \in ToggleChoices :
          \E fixed_slots \in FixedLists(SubSeq(DayNames, 1, 1),
                                         SubSeq(PeriodNames, 1, NumPeriods)) :
              self = LoadCSP(1, allocations, rooms, fixed_slots, Constraints(off))
    /\ cspPc = "solving"
    /\ idx = 1
    /\ solution = _apply_fixed_slots
    /\ placed = <<>>
    /\ cspResult = None
    /\ runNo = 1
    /\ firstRun = None
    /\ GaIdle

\* one call of run() with hard checks switched off
SpecCSPToggles == InitCSPToggles /\ [][NextCSP]_vars

\* __init__ / _load_data of TimetableCSP on a calendar given by its labels
LoadCSPOn(working_days, time_slots, allocations, rooms, fixed_slots, constraints) ==
    [working_days |-> working_days,
     time_slots |-> time_slots,
     allocations |-> allocations,
     classrooms |-> rooms.classrooms,
     labs |-> rooms.labs,
     fixed_slots |-> fixed_slots,
     constraint_config |-> constraints,
     slots |-> _prepare_slots(working_days, time_slots),
     assignments |-> _prepare_assignments(allocations, fixed_slots)]

\* the calendar of the three-hour example: five working days of four periods
ExampleDays == 5

ExamplePeriods == 4

\* the solver object for one batch with one theory subject of three weekly
\* hours, one classroom that holds the batch and no fixed slots, under every
\* setting of the constraint switches; run() just entered
InitCSPExample ==
    /\ \E b \in BatchIds, f \in FacultyIds, c \in {2, 3}, off \in SUBSET ConstraintNames :
          self = LoadCSPOn(SubSeq(DayNames, 1, ExampleDays),
                           SubSeq(PeriodNames, 1, ExamplePeriods),
                           <<[batch_id |-> b, subject_id |-> 4, faculty_id |-> f]>>,
                           [classrooms |-> <<Classroom(1, c)>>, labs |-> <<>>],
                           <<>>, Constraints(off))
    /\ cspPc = "solving"
    /\ idx = 1
    /\ solution = _apply_fixed_slots
    /\ placed = <<>>
    /\ cspResult = None
    /\ runNo = 1
    /\ firstRun = None
    /\ GaIdle

\* the solver of the three-hour example, or of a catalogue of SpecCSP
InitCSPSelect == InitCSP \/ InitCSPExample

\* one call of run(), on the catalogues of SpecCSP or on the three-hour example
SpecCSPSelect == InitCSPSelect /\ [][NextCSP]_vars

\* a day of six periods: every division has two of them
DivisionPeriods == 6

\* allocation rows that include a subject with both theory and lab hours
DivisionAllocationRows ==
    AllocationRows \cup { [batch_id |-> 1, subject_id |-> 5, faculty_id |-> 1],
                          [batch_id |-> 2, subject_id |-> 5, faculty_id |-> 2] }

DivisionAllocationLists ==
    {al \in UNION {[1..n -> DivisionAllocationRows] : n \in 1..MaxAllocations} :
        \A i, j \in 1..Len(al) :
            (i # j) => <<al[i].batch_id, al[i].subject_id>>
                        # <<al[j].batch_id, al[j].subject_id>>}

\* the solver object on one day of six periods, run() just entered
InitCSPDivisions ==
    /\ \E allocations \in DivisionAllocationLists, rooms \in RoomChoices,
          off \in CspDisabledChoices :
          \E fixed_slots \in FixedLists(SubSeq(DayNames, 1, 1),
                                         SubSeq(PeriodNames, 1, DivisionPeriods)) :
              self = LoadCSPOn(SubSeq(DayNames, 1, 1),
                               SubSeq(PeriodNames, 1, DivisionPeriods),
                               allocations, rooms, fixed_slots, Constraints(off))
    /\ cspPc = "solving"
    /\ idx = 1
    /\ solution = _apply_fixed_slots
    /\ placed = <<>>
    /\ cspResult = None
    /\ runNo = 1
    /\ firstRun = None
    /\ GaIdle

\* one call of run() on a day whose divisions have two periods each
SpecCSPDivisions == InitCSPDivisions /\ [][NextCSP]_vars

-----------------------------------------------------------------------------
(* Claims about TimetableCSP *)

ConflictChecksEnabled ==
    /\ self.constraint_config["no_faculty_conflict"].enabled
    /\ self.constraint_config["no_batch_conflict"].enabled
    /\ self.constraint_config["no_room_conflict"].enabled

\* two entries of a schedule collide: same (day, period) and same faculty,
\* batch or room
Collide(e1, e2) ==
    /\ e1.day = e2.day
    /\ e1.time_slot = e2.time_slot
    /\ \/ e1.faculty_id = e2.faculty_id
       \/ e1.batch_id = e2.batch_id
       \/ e1.room_id = e2.room_id

\* C1: with the three conflict checks enabled, no two distinct slots of a
\* schedule returned by run(), fixed or not, share (day, period, faculty),
\* (day, period, batch) or (day, period, room).
C1_NoConflictInReturnedSchedule ==
    (cspPc = "returned" /\ ConflictChecksEnabled) =>
        \A i, j \in 1..Len(cspResult[1]) :
            (i # j) => ~Collide(cspResult[1][i], cspResult[1][j])

\* the schedule entry a fixed slot must appear as
FixedEntry(fixed) ==
    [batch_id |-> fixed.batch_id, day |-> fixed.day, time_slot |-> fixed.time_slot,
     subject_id |-> fixed.subject_id, faculty_id |-> fixed.faculty_id,
     room_id |-> fixed.room_id, room_type |-> fixed.room_type, is_fixed |-> TRUE]

\* C2: the fixed slots of the selected batches are the first entries of the
\* schedule, one entry each, every field unchanged and is_fixed true, at every
\* step of the solve and in the schedule run() returns; every other entry is
\* flagged is_fixed = false.
C2_FixedSlotsPreserved ==
    /\ Len(solution) >= Len(self.fixed_slots)
    /\ \A i \in 1..Len(self.fixed_slots) :
           solution[i] = FixedEntry(self.fixed_slots[i])
    /\ \A i \in (Len(self.fixed_slots) + 1)..Len(solution) : ~solution[i].is_fixed
    /\ (cspPc = "returned") => (cspResult = Some(solution))

C2_Witness ==
    /\ cspPc = "returned"
    /\ Len(self.fixed_slots) = MaxFixed
    /\ Len(cspResult[1]) > Len(self.fixed_slots)

\* C4: every processed requirement has exactly `duration` entries of its own
\* in the schedule, none fixed, and they lie on one day, in one room, at
\* consecutive period indices.
C4_DurationAndConsecutive ==
    /\ Len(placed) = idx - 1
    /\ solution = SubSeq(solution, 1, Len(self.fixed_slots)) \o Flatten(placed)
    /\ \A k \in 1..Len(placed) :
           LET assignment == self.assignments[k]
               entries == placed[k]
           IN  /\ Len(entries) = assignment.duration
               /\ \A i \in 1..Len(entries) :
                      /\ ~entries[i].is_fixed
                      /\ entries[i].batch_id = assignment.batch_id
                      /\ entries[i].subject_id = assignment.subject_id
                      /\ entries[i].faculty_id = assignment.faculty_id
                      /\ entries[i].day = entries[1].day
                      /\ entries[i].room_id = entries[1].room_id
                      /\ InList(self.time_slots, entries[i].time_slot)
                      /\ Index(self.time_slots, entries[i].time_slot)
                             = Index(self.time_slots, entries[1].time_slot) + (i - 1)

C4_Witness ==
    /\ cspPc = "returned"
    /\ \E k, l \in 1..Len(placed) : Len(placed[k]) = 2 /\ Len(placed[l]) = 1

IsPrefix(s, t) == Len(s) <= Len(t) /\ SubSeq(t, 1, Len(s)) = s

\* C5: within one run, the schedule only grows at its end (nothing placed is
\* moved or removed); a requirement with no pair passing the hard filter makes
\* run() raise at once, handing no schedule to the caller; a schedule is
\* returned only when every requirement has been processed.
C5_ConstructiveFailFast ==
    [][ /\ (runNo' = runNo) => IsPrefix(solution, solution')
        /\ ( /\ cspPc = "solving"
             /\ idx <= Len(self.assignments)
             /\ valid_combinations(self.assignments[idx], solution) = <<>> )
           => (cspPc' = "raised" /\ cspResult' = None)
        /\ (cspPc' = "raised") => (cspResult' = None)
        /\ (cspPc' = "returned") =>
               /\ idx' = Len(self.assignments) + 1
               /\ cspResult' = Some(solution') ]_vars

\* run() has raised after placing a requirement: the partial schedule exists
\* and is not handed out
C5_Witness ==
    /\ cspPc = "raised"
    /\ Len(placed) >= 1
    /\ cspResult = None

RECURSIVE CanComplete(_, _)
CanComplete(k, schedule) ==
    IF k > Len(self.assignments) THEN TRUE
    ELSE LET valid == valid_combinations(self.assignments[k], schedule)
         IN  \E i \in 1..Len(valid) :
                 CanComplete(k + 1, schedule \o
                     _assign_slot(self.assignments[k], valid[i][1], valid[i][2]))

\* C8: run() succeeds whenever some assignment of all requirements passes the
\* hard filter together with the fixed slots.
C8_SucceedsWheneverFeasible ==
    (cspPc = "raised") => ~CanComplete(1, _apply_fixed_slots)

\* batch, subject, faculty and kind of a requirement
RequirementOf(assignment) ==
    [batch_id |-> assignment.batch_id, subject_id |-> assignment.subject_id,
     faculty_id |-> assignment.faculty_id, type |-> assignment.type]

\* C16: when the solve fails because a requirement has no legal (slot, room)
\* pair, the error raised identifies that requirement (batch, subject, faculty,
\* kind): no requirement of another batch, subject, faculty or kind would have
\* raised the same error.
C16_ErrorIdentifiesRequirement ==
    (cspPc = "raised") =>
        \A k \in 1..Len(self.assignments) :
            (RunError(self.assignments[k]) = RunError(self.assignments[idx]))
                => (RequirementOf(self.assignments[k])
                        = RequirementOf(self.assignments[idx]))

\* C17: when the requirement expansion yields no requirement (every selected
\* allocation is excluded or has no hours), run() fails and returns no schedule.
C17_EmptyRequirementsFail ==
    (self.assignments = <<>>) => (cspPc # "returned")

\* the six checks of the hard filter, in the order of its code
HardChecks == 1..6

\* the candidate (slot, room) of `assignment` breaks check k against the
\* schedule so far
BreaksCheck(k, assignment, slot, room, schedule) ==
    LET window == IF assignment.duration = 1 THEN <<slot>>
                  ELSE _find_consecutive_slots(slot[1], slot[2], assignment.duration)
        booked(same(_)) ==
            \E e \in 1..Len(schedule) :
                /\ InList(window, <<schedule[e].day, schedule[e].time_slot>>)
                /\ same(schedule[e])
    IN  CASE k = 1 -> booked(LAMBDA e : e.faculty_id = assignment.faculty_id)
          [] k = 2 -> booked(LAMBDA e : e.batch_id = assignment.batch_id)
          [] k = 3 -> booked(LAMBDA e : e.room_id = room.id)
          [] k = 4 -> room.cap < batches[assignment.batch_id].number_of_students
          [] k = 5 -> _check_slot_type_constraint(assignment, slot, schedule)
          [] k = 6 -> _check_consecutive_free_period(assignment, slot, schedule)

\* check k is switched off: its constraint is disabled; checks 5 and 6 have no
\* constraint of their own name, they count as switched off when every
\* constraint of the table is disabled
CheckDisabled(k) ==
    CASE k = 1 -> ~self.constraint_config["no_faculty_conflict"].enabled
      [] k = 2 -> ~self.constraint_config["no_batch_conflict"].enabled
      [] k = 3 -> ~self.constraint_config["no_room_conflict"].enabled
      [] k = 4 -> ~self.constraint_config["room_capacity"].enabled
      [] OTHER -> \A name \in DOMAIN self.constraint_config :
                      ~self.constraint_config[name].enabled

\* C18: each of the six hard checks is switched off by disabling its
\* constraint: with check k disabled, a candidate (slot, room) whose block fits
\* the day and that breaks check k and no other check is not rejected.
C18_DisabledCheckNotApplied ==
    (cspPc = "solving" /\ idx <= Len(self.assignments)) =>
        LET assignment == self.assignments[idx]
            rooms == self.classrooms \o self.labs
        IN  \A k \in HardChecks, s \in 1..Len(self.slots), r \in 1..Len(rooms) :
                ( /\ CheckDisabled(k)
                  /\ \/ assignment.duration = 1
                     \/ _find_consecutive_slots(self.slots[s][1], self.slots[s][2],
                                                assignment.duration) # <<>>
                  /\ \A j \in HardChecks :
                         BreaksCheck(j, assignment, self.slots[s], rooms[r], solution)
                             <=> (j = k) )
                => ~_check_hard_constraints(assignment, self.slots[s], rooms[r].id,
                                            solution)

\* the input is the three-hour example
IsExampleInput ==
    /\ Len(self.working_days) = ExampleDays
    /\ Len(self.time_slots) = ExamplePeriods
    /\ self.fixed_slots = <<>>
    /\ Len(self.classrooms) = 1
    /\ Len(self.allocations) = 1
    /\ subjects[self.allocations[1].subject_id].theory_hours = 3
    /\ subjects[self.allocations[1].subject_id].lab_hours = 0

\* a before b in generation order: day index, then period index, then room order
OrderLe(a, b) ==
    \/ a[1] < b[1]
    \/ a[1] = b[1] /\ a[2] < b[2]
    \/ a[1] = b[1] /\ a[2] = b[2] /\ a[3] <= b[3]

\* C21: every placement is on a (slot, room) pair that passes the hard filter
\* and has the least soft penalty of all such pairs, and of the pairs of that
\* penalty it is the first by day index, period index and room order; on the
\* three-hour example (one batch, one theory subject of 3 hours, 5 days of 4
\* periods, one sufficient classroom, no fixed slots) run() does not fail and
\* returns exactly 3 slots at pairwise different (day, period).
C21_LeastPenaltyFirstInOrder ==
    [][ /\ (cspPc = "solving" /\ idx' = idx + 1) =>
               LET assignment == self.assignments[idx]
                   rooms == _get_available_rooms(
                                assignment.type,
                                batches[assignment.batch_id].number_of_students)
                   first == placed'[idx][1]
                   chosen == <<first.day, first.time_slot>>
                   penalty(slot) ==
                       _calculate_soft_constraint_penalty(assignment, slot, solution)
                   order(slot, room_id) ==
                       <<Index(self.working_days, slot[1]),
                         Index(self.time_slots, slot[2]),
                         CHOOSE r \in 1..Len(rooms) : rooms[r].id = room_id>>
               IN  /\ \E r \in 1..Len(rooms) : rooms[r].id = first.room_id
                   /\ ~_check_hard_constraints(assignment, chosen, first.room_id, solution)
                   /\ \A s \in 1..Len(self.slots), r \in 1..Len(rooms) :
                          ~_check_hard_constraints(assignment, self.slots[s],
                                                   rooms[r].id, solution)
                          => \/ penalty(chosen) < penalty(self.slots[s])
                             \/ /\ penalty(chosen) = penalty(self.slots[s])
                                /\ OrderLe(order(chosen, first.room_id),
                                           order(self.slots[s], rooms[r].id))
        /\ IsExampleInput => (cspPc' # "raised")
        /\ (IsExampleInput /\ cspPc' = "returned") =>
               /\ Len(cspResult'[1]) = 3
               /\ \A i, j \in 1..3 :
                      (i # j) => <<cspResult'[1][i].day, cspResult'[1][i].time_slot>>
                                  # <<cspResult'[1][j].day, cspResult'[1][j].time_slot>> ]_vars

\* the three-hour example has been solved and its schedule returned
C21_Witness ==
    /\ IsExampleInput
    /\ cspPc = "returned"
    /\ Len(cspResult[1]) = 3

\* the entries of the schedule that are theory slots placed by the solver
PlacedTheorySlots ==
    {e \in Range(Flatten(placed)) : e.room_type = "classroom"}

\* the entries of the schedule that are lab slots, placed or fixed
LabSlots ==
    {e \in Range(solution) : e.room_type = "lab"}

\* C22: at every step of the solve and in the returned schedule, no division
\* (morning, noon, late noon) of a day holds both a theory slot the solver
\* placed for a batch and a lab slot of that batch, any period of a lab block
\* counted.
C22_DivisionTypeExclusive ==
    \A t \in PlacedTheorySlots, l \in LabSlots :
        (t.batch_id = l.batch_id /\ t.day = l.day)
            => _get_time_slot_division(t.time_slot) # _get_time_slot_division(l.time_slot)

\* the period indices a batch occupies on a day in a schedule
OccupiedIndices(schedule, batch_id, day) ==
    {Index(self.time_slots, e.time_slot) :
        e \in {e \in Range(schedule) : e.batch_id = batch_id /\ e.day = day}}

\* no idle index between two occupied ones
NoIdlePeriod(indices) ==
    \A a, b \in indices : \A t \in a..b : t \in indices

\* C23: no placement creates an idle period: when the periods the batch of the
\* placed requirement occupied on the day of the placement had no idle index
\* between two of them before the placement, they have none after it, every
\* period of a lab block counted.
C23_NoGapCreated ==
    [][ (cspPc = "solving" /\ idx' = idx + 1) =>
            LET batch_id == self.assignments[idx].batch_id
                day == placed'[idx][1].day
            IN  NoIdlePeriod(OccupiedIndices(solution, batch_id, day))
                    => NoIdlePeriod(OccupiedIndices(solution', batch_id, day)) ]_vars

\* a schedule is returned in which a batch has a lab block and another slot
\* it was given later on the same day
C23_Witness ==
    /\ cspPc = "returned"
    /\ \E k, j \in 1..Len(placed) :
           /\ k < j
           /\ Len(placed[k]) = 2
           /\ placed[j][1].batch_id = placed[k][1].batch_id
           /\ placed[j][1].day = placed[k][1].day

\* the rooms of the kind appropriate to a requirement: the labs for a lab when
\* there is any, the classrooms otherwise
RoomPool(assignment) ==
    IF assignment.type = "lab" /\ self.labs # <<>> THEN self.labs ELSE self.classrooms

\* C24: with room_capacity enabled, every slot the solver places is in a room
\* of the kind appropriate to its requirement, and that room's own capacity is
\* at least the headcount of the slot's batch.
C24_RoomKindAndCapacity ==
    self.constraint_config["room_capacity"].enabled =>
        \A k \in 1..Len(placed) : \A i \in 1..Len(placed[k]) :
            \E r \in Range(RoomPool(self.assignments[k])) :
                /\ r.id = placed[k][i].room_id
                /\ r.cap >= batches[placed[k][i].batch_id].number_of_students

\* C30: with the three conflict checks enabled, a slot the solver placed
\* (is_fixed false) shares (day, period) with no other slot of the schedule of
\* the same faculty, the same batch or the same room, fixed or not, at every
\* step of the solve and in the returned schedule, every period of a lab block
\* counted.
C30_PlacedSlotsConflictFree ==
    ConflictChecksEnabled =>
        \A i, j \in 1..Len(solution) :
            (i # j /\ ~solution[i].is_fixed) => ~Collide(solution[i], solution[j])

\* a schedule with a fixed slot, a lab block and a theory slot is returned, the
\* conflict checks enabled
C30_Witness ==
    /\ cspPc = "returned"
    /\ ConflictChecksEnabled
    /\ self.fixed_slots # <<>>
    /\ \E k, l \in 1..Len(placed) : Len(placed[k]) = 2 /\ Len(placed[l]) = 1
    /\ cspResult = Some(solution)

-----------------------------------------------------------------------------
(* GeneticAlgorithmCPUOptimized: construction *)

MaxPopulation == 2
MaxGenerations == 2
MaxElite == 1

RECURSIVE Gcd(_, _)
Gcd(a, b) == IF b = 0 THEN a ELSE Gcd(b, a % b)

\* the number num/den in lowest terms with den >= 0 (the code computes in
\* floats; den = 0 stands for a division by zero)
Rat(num, den) ==
    LET g == Gcd(Abs(num), Abs(den))
        sign == IF den < 0 THEN -1 ELSE 1
    IN  [num |-> (sign * num) \div g, den |-> (sign * den) \div g]

RatGt(a, b) == a.num * b.den > b.num * a.den

RatGe(a, b) == a.num * b.den >= b.num * a.den

RatAdd(a, b) == Rat(a.num * b.den + b.num * a.den, a.den * b.den)

\* sum(fitnesses)
RECURSIVE RatSum(_)
RatSum(seq) == IF seq = <<>> THEN Rat(0, 1) ELSE RatAdd(Head(seq), RatSum(Tail(seq)))

\* sum of f[x] over the keys x of a dict f
RECURSIVE SumFun(_)
SumFun(f) ==
    IF DOMAIN f = {} THEN 0
    ELSE LET x == CHOOSE y \in DOMAIN f : TRUE
         IN  f[x] + SumFun([y \in DOMAIN f \ {x} |-> f[y]])

\* sorted(list of ints)
RECURSIVE InsertInt(_, _)
InsertInt(sorted, x) ==
    IF sorted = <<>> THEN <<x>>
    ELSE IF x < Head(sorted) THEN <<x>> \o sorted
    ELSE <<Head(sorted)>> \o InsertInt(Tail(sorted), x)

RECURSIVE SortInts(_)
SortInts(seq) ==
    IF seq = <<>> THEN <<>>
    ELSE InsertInt(SortInts(SubSeq(seq, 1, Len(seq) - 1)), seq[Len(seq)])

\* the calendar of the search runs: one working day of two periods
GaCalendar == [working_days |-> <<"Mon">>, time_slots |-> <<"P0", "P1">>]

\* the calendar of the fitness runs: two working days of three periods
FitCalendar == [working_days |-> <<"Mon", "Tue">>, time_slots |-> <<"P0", "P1", "P2">>]

Allocation(b, s, f) == [batch_id |-> b, subject_id |-> s, faculty_id |-> f]

\* catalogues of the search runs: two theory hours of one batch; one theory
\* hour for each of two batches; one lab block, with a computer lab and with
\* classrooms only
GaCatalogues ==
    { [allocations |-> <<Allocation(1, 3, 1)>>,
       classrooms |-> <<Classroom(1, 2)>>, labs |-> <<>>],
      [allocations |-> <<Allocation(1, 1, 2), Allocation(2, 1, 1)>>,
       classrooms |-> <<Classroom(1, 2)>>, labs |-> <<>>],
      [allocations |-> <<Allocation(1, 2, 1)>>,
       classrooms |-> <<Classroom(1, 2)>>, labs |-> <<Lab(1, 2)>>],
      [allocations |-> <<Allocation(1, 2, 1)>>,
       classrooms |-> <<Classroom(1, 2)>>, labs |-> <<>>] }

\* allocations of the fitness runs
FitAllocationLists ==
    { <<Allocation(1, 3, 1)>>, <<Allocation(1, 1, 2), Allocation(2, 3, 1)>>,
      <<Allocation(1, 1, 2), Allocation(2, 1, 1)>> }

FixedRow(b, day, time) ==
    [batch_id |-> b, day |-> day, time_slot |-> time, subject_id |-> 1,
     faculty_id |-> 2, room_id |-> 1, room_type |-> "classroom"]

GaFixedLists ==
    { <<>>, <<FixedRow(2, "Mon", "P0")>>,
      <<FixedRow(1, "Mon", "P1"), FixedRow(2, "Mon", "P0")>> }

\* crossover_rate and mutation_rate of __init__, in percent
DefaultRates == [crossover_rate |-> 80, mutation_rate |-> 1]

\* db.get_constraints() with the constraints of `off` disabled and those of
\* `zero` set to weight 0
ConstraintRows(off, zero) ==
    [name \in ConstraintNames |->
        [enabled |-> name \notin off,
         weight |-> IF name \in zero THEN 0 ELSE DefaultWeight(name)]]

HardNames == {"no_faculty_conflict", "no_batch_conflict", "no_room_conflict"}

SoftNames == {"minimize_faculty_gaps", "minimize_batch_gaps", "balanced_faculty_load"}

\* the constraint tables the fitness is computed under
FitConstraintChoices ==
    { ConstraintRows({}, {}), ConstraintRows({}, HardNames),
      ConstraintRows(HardNames, {}), ConstraintRows(SoftNames, {}),
      ConstraintRows({}, SoftNames),
      ConstraintRows(HardNames \cup {"minimize_faculty_gaps", "minimize_batch_gaps"}, {}),
      ConstraintRows({"no_room_conflict"}, {"minimize_batch_gaps"}) }

\* _load_constraints: the enabled constraints by name
_load_constraints(rows) ==
    [name \in {n \in DOMAIN rows : rows[n].enabled} |-> rows[name]]

\* the slot requirements one allocation expands to
RequirementsOf(alloc) ==
    LET subject == subjects[alloc.subject_id]
        theory == [i \in 1..subject.theory_hours |->
                      [batch_id |-> alloc.batch_id, subject_id |-> alloc.subject_id,
                       faculty_id |-> alloc.faculty_id, type |-> "theory"]]
        lab == IF subject.lab_hours > 0
               THEN <<[batch_id |-> alloc.batch_id, subject_id |-> alloc.subject_id,
                       faculty_id |-> alloc.faculty_id, type |-> "practical",
                       duration |-> subject.lab_hours]>>
               ELSE <<>>
    IN  theory \o lab

\* __init__ / _load_data / _load_constraints of GeneticAlgorithmCPUOptimized
LoadGA(calendar, allocations, rooms, fixed_slots, rows, params) ==
    [working_days |-> calendar.working_days,
     time_slots |-> calendar.time_slots,
     allocations |-> allocations,
     classrooms |-> rooms.classrooms,
     labs |-> rooms.labs,
     fixed_slots |-> fixed_slots,
     slot_requirements |-> Flatten(MapSeq(allocations, RequirementsOf)),
     constraints |-> _load_constraints(rows),
     population_size |-> params.population_size,
     max_generations |-> params.max_generations,
     elite_size |-> params.elite_size,
     tournament_size |-> params.tournament_size,
     crossover_rate |-> params.crossover_rate,
     mutation_rate |-> params.mutation_rate]

\* _precompute_static_data: time_indices.get(time_slot, 0)
time_index(time_slot) ==
    IF InList(self.time_slots, time_slot) THEN Index(self.time_slots, time_slot) ELSE 0

-----------------------------------------------------------------------------
(* GeneticAlgorithmCPUOptimized: individuals *)

Gene(req, day, time_slot, room_id, room_type) ==
    [batch_id |-> req.batch_id, day |-> day, time_slot |-> time_slot,
     subject_id |-> req.subject_id, faculty_id |-> req.faculty_id,
     room_id |-> room_id, room_type |-> room_type, is_fixed |-> FALSE]

\* the gene _create_random_timetable makes of a fixed slot
FixedGene(fixed) ==
    [batch_id |-> fixed.batch_id, day |-> fixed.day, time_slot |-> fixed.time_slot,
     subject_id |-> fixed.subject_id, faculty_id |-> fixed.faculty_id,
     room_id |-> fixed.room_id, room_type |-> fixed.room_type, is_fixed |-> TRUE]

\* the gene lists _create_random_timetable can draw for one requirement
RandomGenes(req) ==
    IF req.type = "theory"
    THEN { <<Gene(req, day, time_slot, room.id, "classroom")>> :
               day \in Range(self.working_days), time_slot \in Range(self.time_slots),
               room \in Range(self.classrooms) }
    ELSE LET last == Len(self.time_slots) - req.duration
             starts == 0..(IF last > 0 THEN last ELSE 0)
             rooms == IF self.labs # <<>>
                      THEN {<<lab.id, "lab">> : lab \in Range(self.labs)}
                      ELSE {<<room.id, "classroom">> : room \in Range(self.classrooms)}
             fit(start_idx) ==
                 {i \in 0..(req.duration - 1) : start_idx + i < Len(self.time_slots)}
         IN  { [k \in 1..Cardinality(fit(start_idx)) |->
                   Gene(req, day, self.time_slots[start_idx + (k - 1) + 1], r[1], r[2])] :
                   day \in Range(self.working_days), start_idx \in starts, r \in rooms }

RECURSIVE RandomGeneLists(_)
RandomGeneLists(reqs) ==
    IF reqs = <<>> THEN {<<>>}
    ELSE {genes \o rest : genes \in RandomGenes(Head(reqs)),
                          rest \in RandomGeneLists(Tail(reqs))}

\* _create_random_timetable: the chromosomes it can return
_create_random_timetable ==
    {MapSeq(self.fixed_slots, FixedGene) \o genes :
         genes \in RandomGeneLists(self.slot_requirements)}

\* _initialize_population_parallel: the populations it can return
_initialize_population_parallel ==
    [1..self.population_size -> _create_random_timetable]

-----------------------------------------------------------------------------
(* GeneticAlgorithmCPUOptimized: fitness *)

\* penalties are kept as integers, in units of 1/penalty_scale: weights are
\* tenths, a gap counts half, the load variance has denominator n^3 and the
\* factor 0.3
penalty_scale ==
    LET n == IF self.working_days = <<>> THEN 1 ELSE Len(self.working_days)
    IN  100 * n * n * n

weight_of(name) == self.constraints[name].weight

\* one of the three conflict sums: per (day, time) group, per id, count - 1
conflict_count(timetable, id_of(_)) ==
    LET slots_by_day_time ==
            [key \in {<<timetable[i].day, timetable[i].time_slot>> : i \in 1..Len(timetable)}
                |-> SelectSeq(timetable, LAMBDA s : <<s.day, s.time_slot>> = key)]
        counts(slots) ==
            [id \in {id_of(slots[i]) : i \in 1..Len(slots)} |->
                Cardinality({i \in 1..Len(slots) : id_of(slots[i]) = id})]
        over(slots) ==
            SumFun([id \in DOMAIN counts(slots) |->
                       IF counts(slots)[id] > 1 THEN counts(slots)[id] - 1 ELSE 0])
    IN  SumFun([key \in DOMAIN slots_by_day_time |-> over(slots_by_day_time[key])])

\* a variant that adds the gap of every adjacent pair, also the negative one of
\* two slots at the same period
gap_sum_unguarded(slots) ==
    LET sorted_idx == SortInts(MapSeq(slots, LAMBDA s : time_index(s.time_slot)))
    IN  IF Len(slots) > 1
        THEN SumSeq([i \in 1..(Len(sorted_idx) - 1) |->
                        sorted_idx[i + 1] - sorted_idx[i] - 1])
        ELSE 0

\* the gaps of one (entity, day) group: slots sorted by period index, and the
\* positive gaps between adjacent ones added up
gap_sum(slots) ==
    LET sorted_idx == SortInts(MapSeq(slots, LAMBDA s : time_index(s.time_slot)))
    IN  IF Len(slots) > 1
        THEN SumSeq([i \in 1..(Len(sorted_idx) - 1) |->
                        LET gap == sorted_idx[i + 1] - sorted_idx[i] - 1
                        IN  IF gap > 0 THEN gap ELSE 0])
        ELSE 0

\* the gaps of all (entity, day) groups, entity being the faculty or the batch
gap_count(timetable, id_of(_)) ==
    LET by_day ==
            [key \in {<<id_of(timetable[i]), timetable[i].day>> : i \in 1..Len(timetable)}
                |-> SelectSeq(timetable, LAMBDA s : <<id_of(s), s.day>> = key)]
    IN  SumFun([key \in DOMAIN by_day |-> gap_sum(by_day[key])])

\* n^3 times the sum over the faculty of the variance of the daily loads
load_variance(timetable) ==
    LET n == Len(self.working_days)
        load(fid, day) ==
            Cardinality({i \in 1..Len(timetable) :
                            timetable[i].faculty_id = fid /\ timetable[i].day = day})
        daily_loads(fid) == [d \in 1..n |-> load(fid, self.working_days[d])]
        total(fid) == SumSeq(daily_loads(fid))
        spread(fid) ==
            IF n > 0 /\ (\E d \in 1..n : daily_loads(fid)[d] > 0)
            THEN SumSeq([d \in 1..n |->
                            (n * daily_loads(fid)[d] - total(fid))
                                * (n * daily_loads(fid)[d] - total(fid))])
            ELSE 0
    IN  SumFun([fid \in {timetable[i].faculty_id : i \in 1..Len(timetable)} |-> spread(fid)])

\* a variant that counts the batch conflicts and neither the faculty nor the
\* room conflicts
penalty_of_batch_conflicts_only(timetable) ==
    LET n == IF self.working_days = <<>> THEN 1 ELSE Len(self.working_days)
        enabled(name) == name \in DOMAIN self.constraints
        hard(name, count) ==
            IF enabled(name) THEN weight_of(name) * count * 10 * n * n * n ELSE 0
        gaps(name, count) ==
            IF enabled(name) THEN weight_of(name) * count * 5 * n * n * n ELSE 0
    IN  hard("no_batch_conflict", conflict_count(timetable, LAMBDA s : s.batch_id))
        + gaps("minimize_faculty_gaps", gap_count(timetable, LAMBDA s : s.faculty_id))
        + gaps("minimize_batch_gaps", gap_count(timetable, LAMBDA s : s.batch_id))
        + (IF enabled("balanced_faculty_load")
           THEN weight_of("balanced_faculty_load") * 3 * load_variance(timetable)
           ELSE 0)

\* the local `penalty` of _calculate_fitness at its return, times penalty_scale
penalty_of(timetable) ==
    LET n == IF self.working_days = <<>> THEN 1 ELSE Len(self.working_days)
        enabled(name) == name \in DOMAIN self.constraints
        hard(name, count) ==
            IF enabled(name) THEN weight_of(name) * count * 10 * n * n * n ELSE 0
        gaps(name, count) ==
            IF enabled(name) THEN weight_of(name) * count * 5 * n * n * n ELSE 0
    IN  hard("no_faculty_conflict", conflict_count(timetable, LAMBDA s : s.faculty_id))
        + hard("no_batch_conflict", conflict_count(timetable, LAMBDA s : s.batch_id))
        + hard("no_room_conflict", conflict_count(timetable, LAMBDA s : s.room_id))
        + gaps("minimize_faculty_gaps", gap_count(timetable, LAMBDA s : s.faculty_id))
        + gaps("minimize_batch_gaps", gap_count(timetable, LAMBDA s : s.batch_id))
        + (IF enabled("balanced_faculty_load")
           THEN weight_of("balanced_faculty_load") * 3 * load_variance(timetable)
           ELSE 0)

\* _calculate_fitness: 1000.0 / (1.0 + penalty)
_calculate_fitness(timetable) ==
    Rat(1000 * penalty_scale, penalty_scale + penalty_of(timetable))

\* _calculate_fitness_batch_optimized (the sequential fallback computes the same)
_calculate_fitness_batch_optimized(timetables) ==
    [i \in 1..Len(timetables) |-> _calculate_fitness(timetables[i])]

-----------------------------------------------------------------------------
(* GeneticAlgorithmGPU: fitness *)

\* list.index(x) if x in list else 0
index_or_zero(list, x) ==
    IF \E i \in 1..Len(list) : list[i] = x
    THEN (CHOOSE i \in 1..Len(list) :
              list[i] = x /\ \A j \in 1..(i - 1) : list[j] # x) - 1
    ELSE 0

\* _encode_timetable: one row [batch, day index, time index, faculty, room]
\* per gene
_encode_timetable(timetable) ==
    [i \in 1..Len(timetable) |->
        <<timetable[i].batch_id,
          index_or_zero(self.working_days, timetable[i].day),
          index_or_zero(self.time_slots, timetable[i].time_slot),
          timetable[i].faculty_id,
          timetable[i].room_id>>]

\* the `penalties` entry of one encoded individual, times penalty_scale: for
\* each enabled conflict constraint, the weight times the sum over the cells
\* (day, time) of the calendar and over the ids met there of count - 1
gpu_penalty_of(encoded) ==
    LET n == IF self.working_days = <<>> THEN 1 ELSE Len(self.working_days)
        rows_at(day, time) ==
            {i \in 1..Len(encoded) : encoded[i][2] = day /\ encoded[i][3] = time}
        conflicts_at(day, time, column) ==
            LET ids == {encoded[i][column] : i \in rows_at(day, time)}
            IN  SumFun([id \in ids |->
                    Cardinality({i \in rows_at(day, time) : encoded[i][column] = id}) - 1])
        conflicts(column) ==
            SumSeq([d \in 1..Len(self.working_days) |->
                SumSeq([t \in 1..Len(self.time_slots) |->
                    conflicts_at(d - 1, t - 1, column)])])
        hard(name, column) ==
            IF name \in DOMAIN self.constraints
            THEN weight_of(name) * conflicts(column) * 10 * n * n * n
            ELSE 0
    IN  hard("no_faculty_conflict", 4)
        + hard("no_batch_conflict", 1)
        + hard("no_room_conflict", 5)

\* _calculate_fitness_gpu: 1000.0 / (1.0 + penalties), one score per individual
_calculate_fitness_gpu(pop) ==
    [i \in 1..Len(pop) |->
        Rat(1000 * penalty_scale,
            penalty_scale + gpu_penalty_of(_encode_timetable(pop[i])))]

-----------------------------------------------------------------------------
(* GeneticAlgorithmCPUOptimized: selection, crossover, mutation *)

\* _tournament_selection: the individuals it can return, a sample of
\* tournament_size distinct indices being drawn in any order; no sample
\* exists (random.sample raises ValueError) when the population is smaller
_tournament_selection(pop, fits) ==
    {pop[w] : w \in {i \in 1..Len(pop) :
        \E sample \in SUBSET (1..Len(pop)) :
            /\ Cardinality(sample) = self.tournament_size
            /\ i \in sample
            /\ \A j \in sample : RatGe(fits[i], fits[j])}}

\* a variant whose children carry the non-fixed genes only
_crossover_dropping_fixed(parent1, parent2) ==
    LET parent1_nonfixed == SelectSeq(parent1, LAMBDA s : ~s.is_fixed)
        parent2_nonfixed == SelectSeq(parent2, LAMBDA s : ~s.is_fixed)
        min_len == IF Len(parent1_nonfixed) < Len(parent2_nonfixed)
                   THEN Len(parent1_nonfixed) ELSE Len(parent2_nonfixed)
        mixed == { << [i \in 1..min_len |->
                          IF coin[i] THEN parent1_nonfixed[i] ELSE parent2_nonfixed[i]]
                        \o SubSeq(parent1_nonfixed, min_len + 1, Len(parent1_nonfixed)),
                      [i \in 1..min_len |->
                          IF coin[i] THEN parent2_nonfixed[i] ELSE parent1_nonfixed[i]]
                        \o SubSeq(parent2_nonfixed, min_len + 1, Len(parent2_nonfixed)) >> :
                   coin \in [1..min_len -> BOOLEAN] }
    IN  (IF self.crossover_rate < 100 THEN {<<parent1, parent2>>} ELSE {}) \cup mixed

\* _crossover: the pairs of children it can return
_crossover(parent1, parent2) ==
    LET fixed_slots == SelectSeq(parent1, LAMBDA s : s.is_fixed)
        parent1_nonfixed == SelectSeq(parent1, LAMBDA s : ~s.is_fixed)
        parent2_nonfixed == SelectSeq(parent2, LAMBDA s : ~s.is_fixed)
        min_len == IF Len(parent1_nonfixed) < Len(parent2_nonfixed)
                   THEN Len(parent1_nonfixed) ELSE Len(parent2_nonfixed)
        mixed == { << fixed_slots
                        \o [i \in 1..min_len |->
                               IF coin[i] THEN parent1_nonfixed[i] ELSE parent2_nonfixed[i]]
                        \o SubSeq(parent1_nonfixed, min_len + 1, Len(parent1_nonfixed)),
                      fixed_slots
                        \o [i \in 1..min_len |->
                               IF coin[i] THEN parent2_nonfixed[i] ELSE parent1_nonfixed[i]]
                        \o SubSeq(parent2_nonfixed, min_len + 1, Len(parent2_nonfixed)) >> :
                   coin \in [1..min_len -> BOOLEAN] }
    IN  (IF self.crossover_rate < 100 THEN {<<parent1, parent2>>} ELSE {}) \cup mixed

\* a variant that lets the swap pick any two genes
any_indices(mutated) == 1..Len(mutated)

\* _mutate: the indices of the genes a swap may pick
non_fixed_indices(mutated) == {i \in 1..Len(mutated) : ~mutated[i].is_fixed}

\* a variant that exchanges the two genes whole
swap_genes(mutated, idx1, idx2) ==
    [mutated EXCEPT ![idx1] = mutated[idx2], ![idx2] = mutated[idx1]]

\* a variant that exchanges the day of two genes and leaves their time_slot
swap_day_only(mutated, idx1, idx2) ==
    [mutated EXCEPT ![idx1].day = mutated[idx2].day,
                    ![idx2].day = mutated[idx1].day]

\* _mutate: day and time_slot of two genes exchanged
swap(mutated, idx1, idx2) ==
    [mutated EXCEPT ![idx1].day = mutated[idx2].day,
                    ![idx1].time_slot = mutated[idx2].time_slot,
                    ![idx2].day = mutated[idx1].day,
                    ![idx2].time_slot = mutated[idx1].time_slot]

\* _mutate: what one pass of its loop can make of a chromosome
mutate_once(mutated) ==
    (IF self.mutation_rate < 100 THEN {mutated} ELSE {})
    \cup (IF self.mutation_rate > 0
          THEN {swap(mutated, pick[1], pick[2]) :
                    pick \in {p \in non_fixed_indices(mutated)
                                       \X non_fixed_indices(mutated) : p[1] # p[2]}}
          ELSE {})

RECURSIVE mutate_passes(_, _)
mutate_passes(timetables, passes) ==
    IF passes = 0 THEN timetables
    ELSE mutate_passes(UNION {mutate_once(t) : t \in timetables}, passes - 1)

\* _mutate: the chromosomes it can return
_mutate(timetable) ==
    LET n == Cardinality(non_fixed_indices(timetable))
    IN  IF n < 2 THEN {timetable}
        ELSE mutate_passes({timetable}, ((n * self.mutation_rate) \div 100) + 1)

\* _parallel_crossover_mutation, one pair: the two children it can append
\* (the sequential fallback computes the same)
children_of_pair(parent1, parent2) ==
    UNION { { <<m1, m2>> : m1 \in _mutate(c[1]), m2 \in _mutate(c[2]) } :
            c \in _crossover(parent1, parent2) }

\* run: what one parent pair, each parent the winner of a tournament, can be
\* turned into by _parallel_crossover_mutation
bred_pairs ==
    LET winners == _tournament_selection(population, fitnesses)
    IN  UNION {children_of_pair(w[1], w[2]) : w \in winners \X winners}

\* sorted(range(len(fitnesses)), key=fitnesses[i], reverse=True): equal keys keep
\* their order
RECURSIVE InsertByFitness(_, _, _)
InsertByFitness(sorted, i, fits) ==
    IF sorted = <<>> THEN <<i>>
    ELSE IF RatGt(fits[i], fits[Head(sorted)]) THEN <<i>> \o sorted
    ELSE <<Head(sorted)>> \o InsertByFitness(Tail(sorted), i, fits)

RECURSIVE SortedByFitness(_, _)
SortedByFitness(n, fits) ==
    IF n = 0 THEN <<>> ELSE InsertByFitness(SortedByFitness(n - 1, fits), n, fits)

\* a variant that takes the elite_size individuals of lowest fitness
elite_indices_worst_first ==
    LET order == SortedByFitness(Len(fitnesses), fitnesses)
        n == IF self.elite_size < Len(order) THEN self.elite_size ELSE Len(order)
    IN  [k \in 1..n |-> order[Len(order) - k + 1]]

\* a variant that takes the first elite_size individuals in population order
elite_indices_unsorted ==
    [k \in 1..(IF self.elite_size < Len(fitnesses) THEN self.elite_size
               ELSE Len(fitnesses)) |-> k]

\* run: the elite individuals, best first
elite_indices ==
    LET order == SortedByFitness(Len(fitnesses), fitnesses)
    IN  SubSeq(order, 1, IF self.elite_size < Len(order) THEN self.elite_size
                         ELSE Len(order))

\* run: how many parent pairs the while loop collects
RECURSIVE num_parent_pairs(_, _)
num_parent_pairs(len_new_population, pairs) ==
    IF len_new_population + pairs * 2 < self.population_size
    THEN num_parent_pairs(len_new_population, pairs + 1)
    ELSE pairs

-----------------------------------------------------------------------------
(* GeneticAlgorithmCPUOptimized.run as a state machine *)

\* no CSP solver is running
CspIdle ==
    /\ cspPc = "idle"
    /\ idx = 1
    /\ solution = <<>>
    /\ placed = <<>>
    /\ cspResult = None
    /\ runNo = 1
    /\ firstRun = None

\* the parameters the constructor is called with
GaParams ==
    [population_size : 1..MaxPopulation, max_generations : 0..MaxGenerations,
     elite_size : 0..MaxElite, tournament_size : 1..(MaxPopulation + 1),
     crossover_rate : {DefaultRates.crossover_rate},
     mutation_rate : {DefaultRates.mutation_rate}]

\* run: the population is initialised, the trace and the best are reset
RunInitialize ==
    /\ gaPc = "constructed"
    /\ population' \in _initialize_population_parallel
    /\ fitness_history' = <<>>
    /\ best_overall_fitness' = Rat(0, 1)
    /\ best_overall_timetable' = None
    /\ generation' = 0
    /\ gaPc' = "loop"
    /\ UNCHANGED <<self, fitnesses, gaResult, cspVars>>

\* a variant that takes the best of the generation as the best overall
RunEvaluateOverwriting ==
    /\ gaPc = "loop"
    /\ generation < self.max_generations
    /\ \E fits \in {_calculate_fitness_batch_optimized(population)} :
       LET best_idx == CHOOSE i \in 1..Len(fits) :
                           /\ \A j \in 1..Len(fits) : RatGe(fits[i], fits[j])
                           /\ \A j \in 1..(i - 1) : fits[j] # fits[i]
           best_fitness == fits[best_idx]
           avg_fitness == Rat(RatSum(fits).num, RatSum(fits).den * Len(fits))
       IN  /\ fitnesses' = fits
           /\ fitness_history' =
                  Append(fitness_history, [generation |-> generation,
                                           best |-> best_fitness,
                                           average |-> avg_fitness])
           /\ best_overall_fitness' = best_fitness
           /\ best_overall_timetable' = Some(population[best_idx])
           /\ gaPc' = IF RatGe(best_fitness, Rat(999, 1)) THEN "done" ELSE "breed"
    /\ UNCHANGED <<self, population, generation, gaResult, cspVars>>

\* a variant whose loop has no early stop
RunEvaluateNoEarlyStop ==
    /\ gaPc = "loop"
    /\ generation < self.max_generations
    /\ \E fits \in {_calculate_fitness_batch_optimized(population)} :
       LET best_idx == CHOOSE i \in 1..Len(fits) :
                           /\ \A j \in 1..Len(fits) : RatGe(fits[i], fits[j])
                           /\ \A j \in 1..(i - 1) : fits[j] # fits[i]
           best_fitness == fits[best_idx]
           avg_fitness == Rat(RatSum(fits).num, RatSum(fits).den * Len(fits))
       IN  /\ fitnesses' = fits
           /\ fitness_history' =
                  Append(fitness_history, [generation |-> generation,
                                           best |-> best_fitness,
                                           average |-> avg_fitness])
           /\ IF RatGt(best_fitness, best_overall_fitness)
              THEN /\ best_overall_fitness' = best_fitness
                   /\ best_overall_timetable' = Some(population[best_idx])
              ELSE UNCHANGED <<best_overall_fitness, best_overall_timetable>>
           /\ gaPc' = "breed"
    /\ UNCHANGED <<self, population, generation, gaResult, cspVars>>

\* run, first half of the loop body: the population is scored, the trace
\* extended, the best overall updated, and the loop left at fitness >= 999
RunEvaluate ==
    /\ gaPc = "loop"
    /\ generation < self.max_generations
    /\ \E fits \in {_calculate_fitness_batch_optimized(population)} :
       LET best_idx == CHOOSE i \in 1..Len(fits) :
                           /\ \A j \in 1..Len(fits) : RatGe(fits[i], fits[j])
                           /\ \A j \in 1..(i - 1) : fits[j] # fits[i]
           best_fitness == fits[best_idx]
           avg_fitness == Rat(RatSum(fits).num, RatSum(fits).den * Len(fits))
       IN  /\ fitnesses' = fits
           /\ fitness_history' =
                  Append(fitness_history, [generation |-> generation,
                                           best |-> best_fitness,
                                           average |-> avg_fitness])
           /\ IF RatGt(best_fitness, best_overall_fitness)
              THEN /\ best_overall_fitness' = best_fitness
                   /\ best_overall_timetable' = Some(population[best_idx])
              ELSE UNCHANGED <<best_overall_fitness, best_overall_timetable>>
           /\ gaPc' = IF RatGe(best_fitness, Rat(999, 1)) THEN "done" ELSE "breed"
    /\ UNCHANGED <<self, population, generation, gaResult, cspVars>>

\* a variant that keeps every child, without the cut to population_size
RunBreedUncut ==
    /\ gaPc = "breed"
    /\ \E elites \in {[k \in 1..Len(elite_indices) |-> population[elite_indices[k]]]} :
       LET pairs == num_parent_pairs(Len(elites), 0)
       IN  /\ (pairs > 0) => (self.tournament_size <= Len(population))
           /\ population' \in
                  { elites \o Flatten(children) : children \in [1..pairs -> bred_pairs] }
    /\ generation' = generation + 1
    /\ gaPc' = "loop"
    /\ UNCHANGED <<self, fitnesses, fitness_history, best_overall_fitness,
                   best_overall_timetable, gaResult, cspVars>>

\* run, second half of the loop body: elites, parent pairs, children, and the
\* new population cut to population_size
RunBreed ==
    /\ gaPc = "breed"
    /\ \E elites \in {[k \in 1..Len(elite_indices) |-> population[elite_indices[k]]]} :
       LET pairs == num_parent_pairs(Len(elites), 0)
       IN  /\ (pairs > 0) => (self.tournament_size <= Len(population))
           /\ population' \in
                  { elites \o SubSeq(Flatten(children), 1,
                                     self.population_size - Len(elites)) :
                        children \in [1..pairs -> bred_pairs] }
    /\ generation' = generation + 1
    /\ gaPc' = "loop"
    /\ UNCHANGED <<self, fitnesses, fitness_history, best_overall_fitness,
                   best_overall_timetable, gaResult, cspVars>>

\* run: a parent is needed and random.sample raises ValueError, the sample
\* being larger than the population
RunTournamentRaises ==
    /\ gaPc = "breed"
    /\ num_parent_pairs(Len(elite_indices), 0) > 0
    /\ self.tournament_size > Len(population)
    /\ gaPc' = "raised"
    /\ UNCHANGED <<self, population, fitnesses, generation, fitness_history,
                   best_overall_fitness, best_overall_timetable, gaResult, cspVars>>

\* a variant that returns the first individual of the final population
GaRunReturnFinalPopulation ==
    /\ \/ gaPc = "loop" /\ generation >= self.max_generations
       \/ gaPc = "done"
    /\ gaPc' = "returned"
    /\ gaResult' = Some(<<IF population = <<>> THEN None ELSE Some(population[1]),
                          fitness_history>>)
    /\ UNCHANGED <<self, population, fitnesses, generation, fitness_history,
                   best_overall_fitness, best_overall_timetable, cspVars>>

\* run: the loop is over or left; (best_overall_timetable, fitness_history)
\* is returned
GaRunReturn ==
    /\ \/ gaPc = "loop" /\ generation >= self.max_generations
       \/ gaPc = "done"
    /\ gaPc' = "returned"
    /\ gaResult' = Some(<<best_overall_timetable, fitness_history>>)
    /\ UNCHANGED <<self, population, fitnesses, generation, fitness_history,
                   best_overall_fitness, best_overall_timetable, cspVars>>

\* the solver object after GeneticAlgorithmCPUOptimized(...)
InitGA ==
    /\ \E catalogue \in GaCatalogues, fixed_slots \in GaFixedLists,
          params \in GaParams :
          self = LoadGA(GaCalendar, catalogue.allocations, catalogue, fixed_slots,
                        ConstraintRows({}, {}), params)
    /\ gaPc = "constructed"
    /\ population = <<>>
    /\ fitnesses = <<>>
    /\ generation = 0
    /\ fitness_history = <<>>
    /\ best_overall_fitness = Rat(0, 1)
    /\ best_overall_timetable = None
    /\ gaResult = None
    /\ CspIdle

NextGA == RunInitialize \/ RunEvaluate \/ RunBreed \/ RunTournamentRaises \/ GaRunReturn

\* one call of run() of the genetic solver
SpecGA == InitGA /\ [][NextGA]_vars

\* the solver constructed on one of the catalogues without fixed slots
InitGANoFixed == InitGA /\ self.fixed_slots = <<>>

\* run() on the catalogues without fixed slots. It is a sequential loop: a
\* step that can be taken is taken. RunEvaluate is enabled exactly when its
\* guard holds (its primed variables are all assigned by total expressions)
\* and it leaves the guard false, so its weak fairness says that the guard is
\* false again and again
SpecGAFair ==
    /\ InitGANoFixed
    /\ [][NextGA]_vars
    /\ WF_vars(RunInitialize)
    /\ WF_vars(RunBreed)
    /\ WF_vars(RunTournamentRaises)
    /\ WF_vars(GaRunReturn)
    /\ []<>(~(gaPc = "loop" /\ generation < self.max_generations))

\* one individual about to be scored, under one of the constraint tables
InitFit ==
    /\ \E allocations \in FitAllocationLists,
          fixed_slots \in {<<>>, <<FixedRow(2, "Mon", "P0")>>},
          rows \in FitConstraintChoices :
          self = LoadGA(FitCalendar, allocations,
                        [classrooms |-> <<Classroom(1, 2)>>, labs |-> <<>>],
                        fixed_slots, rows,
                        [population_size |-> 1, max_generations |-> 1,
                         elite_size |-> 1, tournament_size |-> 1,
                         crossover_rate |-> DefaultRates.crossover_rate,
                         mutation_rate |-> DefaultRates.mutation_rate])
    /\ gaPc = "loop"
    /\ population \in _initialize_population_parallel
    /\ fitnesses = <<>>
    /\ generation = 0
    /\ fitness_history = <<>>
    /\ best_overall_fitness = Rat(0, 1)
    /\ best_overall_timetable = None
    /\ gaResult = None
    /\ CspIdle

NextFit == RunEvaluate

\* the fitness of one individual
SpecFit == InitFit /\ [][NextFit]_vars

-----------------------------------------------------------------------------
(* _crossover and _mutate applied to individuals *)

\* catalogues of the operator runs: a lab block of two periods beside a theory
\* hour, and two theory hours; one classroom and one computer lab
OpsAllocationLists ==
    { <<Allocation(1, 2, 1), Allocation(2, 1, 1)>>, <<Allocation(1, 3, 1)>> }

\* mutation_rate of the operator runs, in percent: the default and 1.0
OpsMutationRates == {DefaultRates.mutation_rate, 100}

\* two individuals of one solver object, as _create_random_timetable makes them
InitOps ==
    /\ \E allocations \in OpsAllocationLists,
          fixed_slots \in {<<>>, <<FixedRow(2, "Mon", "P0")>>},
          mutation_rate \in OpsMutationRates :
          self = LoadGA(FitCalendar, allocations,
                        [classrooms |-> <<Classroom(1, 2)>>, labs |-> <<Lab(2, 2)>>],
                        fixed_slots, ConstraintRows({}, {}),
                        [population_size |-> 2, max_generations |-> 1,
                         elite_size |-> 0, tournament_size |-> 2,
                         crossover_rate |-> DefaultRates.crossover_rate,
                         mutation_rate |-> mutation_rate])
    /\ gaPc = "operands"
    /\ population \in [1..2 -> _create_random_timetable]
    /\ fitnesses = <<>>
    /\ generation = 0
    /\ fitness_history = <<>>
    /\ best_overall_fitness = Rat(0, 1)
    /\ best_overall_timetable = None
    /\ gaResult = None
    /\ CspIdle

\* child1, child2 = _crossover(parent1, parent2): the parents are individuals
\* 1 and 2, the children are appended as 3 and 4
ApplyCrossover ==
    /\ gaPc = "operands"
    /\ \E children \in _crossover(population[1], population[2]) :
           population' = population \o <<children[1], children[2]>>
    /\ gaPc' = "crossed"
    /\ UNCHANGED <<self, fitnesses, generation, fitness_history, best_overall_fitness,
                   best_overall_timetable, gaResult, cspVars>>

\* _mutate(timetable) of the last individual (a parent or a child): the result
\* is appended after it
ApplyMutate ==
    /\ gaPc \in {"operands", "crossed"}
    /\ \E mutated \in _mutate(population[Len(population)]) :
           population' = Append(population, mutated)
    /\ gaPc' = "mutated"
    /\ UNCHANGED <<self, fitnesses, generation, fitness_history, best_overall_fitness,
                   best_overall_timetable, gaResult, cspVars>>

NextOps == ApplyCrossover \/ ApplyMutate

\* one crossover and one mutation
SpecOps == InitOps /\ [][NextOps]_vars

-----------------------------------------------------------------------------
(* Both solvers on a faculty member with more periods to teach than the week has *)

\* allocations of the CSP runs: faculty 1 teaches 4 and 5 periods, and 2
OverloadCspAllocations ==
    { <<Allocation(1, 2, 1), Allocation(1, 3, 1)>>,
      <<Allocation(1, 2, 1), Allocation(1, 3, 1), Allocation(2, 1, 1)>>,
      <<Allocation(1, 3, 1)>> }

\* allocations of the GA runs, on the calendar of two cells: faculty 1 teaches
\* 3 periods, and 2
OverloadGaAllocations ==
    { <<Allocation(1, 3, 1), Allocation(2, 1, 1)>>, <<Allocation(1, 3, 1)>> }

\* parameters of the GA runs: a population of two, no generation or two, with
\* and without an elite, a tournament the population can and cannot fill
OverloadParams ==
    [population_size : {2}, max_generations : {0, 2}, elite_size : {0, 1},
     tournament_size : {2, 3},
     crossover_rate : {DefaultRates.crossover_rate},
     mutation_rate : {DefaultRates.mutation_rate}]

\* TimetableCSP(...), run() just entered: one working day, every constraint
\* enabled, no fixed slot
InitCSPOverload ==
    /\ \E allocations \in OverloadCspAllocations :
          self = LoadCSP(1, allocations,
                         [classrooms |-> <<Classroom(1, 2)>>, labs |-> <<>>],
                         <<>>, Constraints({}))
    /\ cspPc = "solving"
    /\ idx = 1
    /\ solution = _apply_fixed_slots
    /\ placed = <<>>
    /\ cspResult = None
    /\ runNo = 1
    /\ firstRun = None
    /\ GaIdle

\* GeneticAlgorithmCPUOptimized(...): every constraint enabled at its default
\* weight, no fixed slot
InitGAOverload ==
    /\ \E allocations \in OverloadGaAllocations, params \in OverloadParams :
          self = LoadGA(GaCalendar, allocations,
                        [classrooms |-> <<Classroom(1, 2)>>, labs |-> <<>>],
                        <<>>, ConstraintRows({}, {}), params)
    /\ gaPc = "constructed"
    /\ population = <<>>
    /\ fitnesses = <<>>
    /\ generation = 0
    /\ fitness_history = <<>>
    /\ best_overall_fitness = Rat(0, 1)
    /\ best_overall_timetable = None
    /\ gaResult = None
    /\ CspIdle

InitOverload == InitCSPOverload \/ InitGAOverload

NextOverload == NextCSP \/ NextGA

\* one call of run() of either solver
SpecOverload == InitOverload /\ [][NextOverload]_vars

-----------------------------------------------------------------------------
(* run() with elites fewer than, as many as and more than the population *)

\* population_size with the elite sizes it is run with: none, odd, even, the
\* whole population and more
SizeParams ==
    { [population_size |-> p[1], max_generations |-> 2, elite_size |-> p[2],
       tournament_size |-> 1, crossover_rate |-> DefaultRates.crossover_rate,
       mutation_rate |-> DefaultRates.mutation_rate] :
          p \in { <<1, 0>>, <<1, 1>>, <<1, 2>>, <<2, 0>>, <<2, 1>>, <<2, 2>>, <<2, 3>>,
                  <<3, 0>>, <<3, 1>>, <<3, 2>>, <<3, 4>> } }

\* the solver object: one hour for each of two batches, both cells of the day
\* taken by a fixed slot, so that every individual has a conflict and the
\* loop breeds
InitGASizes ==
    /\ \E params \in SizeParams :
          self = LoadGA(GaCalendar, <<Allocation(1, 1, 2), Allocation(2, 1, 1)>>,
                        [classrooms |-> <<Classroom(1, 2)>>, labs |-> <<>>],
                        <<FixedRow(1, "Mon", "P1"), FixedRow(2, "Mon", "P0")>>,
                        ConstraintRows({}, {}), params)
    /\ gaPc = "constructed"
    /\ population = <<>>
    /\ fitnesses = <<>>
    /\ generation = 0
    /\ fitness_history = <<>>
    /\ best_overall_fitness = Rat(0, 1)
    /\ best_overall_timetable = None
    /\ gaResult = None
    /\ CspIdle

NextGASizes == RunInitialize \/ RunEvaluate \/ RunBreed \/ GaRunReturn

\* one call of run() for each of the sizes
SpecGASizes == InitGASizes /\ [][NextGASizes]_vars

-----------------------------------------------------------------------------
(* Claims about GeneticAlgorithmCPUOptimized *)

\* the genes of an individual flagged fixed are, in order, the fixed slots of
\* the selected batches, every field unchanged
KeepsFixedSlots(timetable) ==
    SelectSeq(timetable, LAMBDA s : s.is_fixed)
        = [i \in 1..Len(self.fixed_slots) |-> FixedEntry(self.fixed_slots[i])]

\* C3: every individual of every generation's population, the best individual
\* kept by the loop and the individual run() returns carry each fixed slot of
\* the selected batches exactly once and unchanged (batch, day, period,
\* subject, faculty, room, is_fixed = true); selection, crossover and mutation
\* never change, drop or duplicate a fixed gene.
C3_FixedGenesPreserved ==
    /\ \A i \in 1..Len(population) : KeepsFixedSlots(population[i])
    /\ (best_overall_timetable # None) => KeepsFixedSlots(best_overall_timetable[1])
    /\ (gaPc = "returned" /\ gaResult[1][1] # None) =>
           KeepsFixedSlots(gaResult[1][1][1])

\* run() has returned an individual of a population bred without elites, so
\* made of crossed and mutated children only, with two fixed slots
C3_Witness ==
    /\ gaPc = "returned"
    /\ generation >= 2
    /\ self.elite_size = 0
    /\ Len(population) >= 2
    /\ Len(self.fixed_slots) = 2
    /\ gaResult[1][1] # None
    /\ \E i \in 1..Len(population) : population[i] # gaResult[1][1][1]

\* C6: run() of the genetic solver never ends with an error, and the individual
\* it returns is never null.
C6_NeverAbortsAlwaysReturns ==
    /\ gaPc # "raised"
    /\ (gaPc = "returned") => (gaResult[1][1] # None)

GaConstraintNames == HardNames \cup SoftNames

\* the individual books one faculty member, batch or room twice at one
\* (day, period)
DoubleBooked(timetable, id_of(_)) ==
    \E i, j \in 1..Len(timetable) :
        /\ i # j
        /\ timetable[i].day = timetable[j].day
        /\ timetable[i].time_slot = timetable[j].time_slot
        /\ id_of(timetable[i]) = id_of(timetable[j])

\* a faculty member or batch has, on one day, two slots with an idle period
\* and no slot of theirs between them
HasGap(timetable, id_of(_)) ==
    \E i, j \in 1..Len(timetable) :
        /\ id_of(timetable[i]) = id_of(timetable[j])
        /\ timetable[i].day = timetable[j].day
        /\ Index(self.time_slots, timetable[j].time_slot)
               - Index(self.time_slots, timetable[i].time_slot) > 1
        /\ ~\E k \in 1..Len(timetable) :
               /\ id_of(timetable[k]) = id_of(timetable[i])
               /\ timetable[k].day = timetable[i].day
               /\ Index(self.time_slots, timetable[k].time_slot)
                      > Index(self.time_slots, timetable[i].time_slot)
               /\ Index(self.time_slots, timetable[k].time_slot)
                      < Index(self.time_slots, timetable[j].time_slot)

\* a faculty member teaches more slots on one working day than on another
UnevenLoad(timetable) ==
    \E i \in 1..Len(timetable), d1, d2 \in Range(self.working_days) :
        Cardinality({k \in 1..Len(timetable) :
                        /\ timetable[k].faculty_id = timetable[i].faculty_id
                        /\ timetable[k].day = d1})
            # Cardinality({k \in 1..Len(timetable) :
                              /\ timetable[k].faculty_id = timetable[i].faculty_id
                              /\ timetable[k].day = d2})

Violates(name, timetable) ==
    CASE name = "no_faculty_conflict" -> DoubleBooked(timetable, LAMBDA s : s.faculty_id)
      [] name = "no_batch_conflict" -> DoubleBooked(timetable, LAMBDA s : s.batch_id)
      [] name = "no_room_conflict" -> DoubleBooked(timetable, LAMBDA s : s.room_id)
      [] name = "minimize_faculty_gaps" -> HasGap(timetable, LAMBDA s : s.faculty_id)
      [] name = "minimize_batch_gaps" -> HasGap(timetable, LAMBDA s : s.batch_id)
      [] name = "balanced_faculty_load" -> UnevenLoad(timetable)

\* fitness in (0, 1000], and 1000 exactly for penalty 0
FitnessInRange(fitness, timetable) ==
    /\ fitness.den > 0
    /\ fitness.num > 0
    /\ fitness.num <= 1000 * fitness.den
    /\ (fitness.num = 1000 * fitness.den) <=> (penalty_of(timetable) = 0)

C10_BestOverallNonDecreasing ==
    [][RatGe(best_overall_fitness', best_overall_fitness)]_vars

\* a generation whose best individual scores less than the best overall
C10_Witness ==
    /\ Len(fitness_history) >= 2
    /\ RatGt(best_overall_fitness, fitness_history[Len(fitness_history)].best)
    /\ RatGt(fitness_history[Len(fitness_history) - 1].best,
             fitness_history[Len(fitness_history)].best)

\* f is the greatest 'best' of the trace
IsMaxBest(f, history) ==
    /\ \E k \in 1..Len(history) : history[k].best = f
    /\ \A k \in 1..Len(history) : RatGe(f, history[k].best)

\* C11: the trace has exactly one entry per generation executed, numbered
\* 0, 1, 2, ... in order; run() returns that trace, and the individual it
\* returns is the best seen in any generation: its fitness equals the maximum
\* of the 'best' values over the whole trace, not the last generation's best.
C11_ReturnsBestSeen ==
    /\ \A k \in 1..Len(fitness_history) : fitness_history[k].generation = k - 1
    /\ (gaPc = "loop") => (Len(fitness_history) = generation)
    /\ (gaPc \in {"breed", "done"}) => (Len(fitness_history) = generation + 1)
    /\ (gaPc = "returned") =>
           /\ gaResult[1][2] = fitness_history
           /\ (fitness_history # <<>>) =>
                  /\ gaResult[1][1] # None
                  /\ IsMaxBest(_calculate_fitness(gaResult[1][1][1]), fitness_history)

\* run() has returned after two generations, the second one's best scoring
\* less than the individual returned
C11_Witness ==
    /\ gaPc = "returned"
    /\ Len(gaResult[1][2]) = 2
    /\ RatGt(_calculate_fitness(gaResult[1][1][1]), gaResult[1][2][2].best)

\* the trace entry of the generation scored last reached the early-stop threshold
LastBestAtThreshold ==
    /\ fitness_history # <<>>
    /\ RatGe(fitness_history[Len(fitness_history)].best, Rat(999, 1))

\* C12: run() always terminates: it scores at most max_generations generations,
\* and it stops right after the first generation whose best fitness is >= 999.0,
\* so only the last trace entry can have best >= 999.0 and no next generation is
\* built after it.
C12_TerminatesWithEarlyStop ==
    /\ <>(gaPc \in {"returned", "raised"})
    /\ [](Len(fitness_history) <= self.max_generations)
    /\ [](\A k \in 1..(Len(fitness_history) - 1) :
              ~RatGe(fitness_history[k].best, Rat(999, 1)))
    /\ [](LastBestAtThreshold => gaPc \in {"done", "returned"})
    /\ [][LastBestAtThreshold => population' = population]_vars

\* run() has returned after one generation of the two allowed, its best at the
\* threshold
C12_Witness ==
    /\ gaPc = "returned"
    /\ self.max_generations = 2
    /\ Len(gaResult[1][2]) = 1
    /\ RatGe(gaResult[1][2][1].best, Rat(999, 1))

\* the numbers of fixed and of non-fixed genes of an individual
GeneCounts(timetable) ==
    <<Len(SelectSeq(timetable, LAMBDA s : s.is_fixed)),
      Len(SelectSeq(timetable, LAMBDA s : ~s.is_fixed))>>

\* C13: each child _crossover returns, triggered or not, has exactly as many
\* fixed genes and as many non-fixed genes as the parent it was made from, and
\* so has each result of _mutate.
C13_GeneCountsKept ==
    /\ (gaPc = "crossed") =>
           /\ GeneCounts(population[3]) = GeneCounts(population[1])
           /\ GeneCounts(population[4]) = GeneCounts(population[2])
    /\ (gaPc = "mutated") =>
           GeneCounts(population[Len(population)])
               = GeneCounts(population[Len(population) - 1])

\* a triggered crossover of parents with a fixed gene: the first child is
\* neither parent
C13_Witness ==
    /\ gaPc = "crossed"
    /\ GeneCounts(population[1])[1] = 1
    /\ population[3] # population[1]
    /\ population[3] # population[2]

LabBlockIntact(req, timetable) ==
    LET genes == SelectSeq(timetable, LAMBDA s :
                     /\ ~s.is_fixed
                     /\ s.batch_id = req.batch_id
                     /\ s.subject_id = req.subject_id
                     /\ s.faculty_id = req.faculty_id)
        periods == {time_index(genes[i].time_slot) : i \in 1..Len(genes)}
    IN  /\ Len(genes) = req.duration
        /\ \A i, j \in 1..Len(genes) : genes[i].day = genes[j].day
        /\ Cardinality(periods) = req.duration
        /\ \A p, q \in periods : q - p < req.duration

\* C15: in every individual the genetic solver produces (initial, crossover
\* child, mutated child), the genes of each lab requirement number exactly its
\* duration and lie on one day at consecutive periods.
C15_LabBlocksIntact ==
    \A i \in 1..Len(population) :
        \A k \in 1..Len(self.slot_requirements) :
            (self.slot_requirements[k].type = "practical")
                => LabBlockIntact(self.slot_requirements[k], population[i])

\* C19: the requirement list the genetic solver schedules contains no
\* requirement whose (batch, subject, faculty) triple appears in a fixed slot:
\* such a triple occurs in an individual, and in the schedule returned, only as
\* the fixed genes, never as a gene the solver placed.
C19_FixedTriplesNotScheduled ==
    /\ \A k \in 1..Len(self.slot_requirements) :
           ~IsFixedAllocation(self.slot_requirements[k], self.fixed_slots)
    /\ \A i \in 1..Len(population) : \A g \in 1..Len(population[i]) :
           ~population[i][g].is_fixed
               => ~IsFixedAllocation(population[i][g], self.fixed_slots)
    /\ (gaPc = "returned" /\ gaResult[1][1] # None) =>
           \A g \in 1..Len(gaResult[1][1][1]) :
               ~gaResult[1][1][1][g].is_fixed
                   => ~IsFixedAllocation(gaResult[1][1][1][g], self.fixed_slots)

\* the periods the requirements of faculty member f need
PeriodsNeeded(requirements, f) ==
    SumSeq([k \in 1..Len(requirements) |->
               IF requirements[k].faculty_id # f THEN 0
               ELSE IF "duration" \in DOMAIN requirements[k]
                    THEN requirements[k].duration ELSE 1])

\* some faculty member has more periods to teach than the calendar has cells
Overloaded(requirements) ==
    \E f \in FacultyIds :
        PeriodsNeeded(requirements, f) > Len(self.working_days) * Len(self.time_slots)

NumElites ==
    IF self.elite_size < Len(population) THEN self.elite_size ELSE Len(population)

\* C25: when the next generation is built, the elite_size individuals of
\* highest fitness of the current generation (all of them when elite_size
\* exceeds the population) are the first individuals of the next population,
\* gene for gene, before any offspring.
C25_ElitesCarriedFirst ==
    [][ (gaPc = "breed" /\ gaPc' = "loop") =>
            \E chosen \in [1..NumElites -> 1..Len(population)] :
                /\ \A a, b \in 1..NumElites : (a # b) => (chosen[a] # chosen[b])
                /\ \A a \in 1..NumElites, i \in 1..Len(population) :
                       (\A b \in 1..NumElites : chosen[b] # i)
                           => RatGe(fitnesses[chosen[a]], fitnesses[i])
                /\ Len(population') >= NumElites
                /\ \A a \in 1..NumElites : population'[a] = population[chosen[a]] ]_vars

\* a generation has been bred with at least one elite and fewer elites than
\* individuals, from a population whose individuals scored differently, the
\* first of them not the best
C25_Witness ==
    /\ gaPc = "loop"
    /\ generation >= 1
    /\ self.elite_size >= 1
    /\ self.elite_size < Len(fitnesses)
    /\ \E i \in 2..Len(fitnesses) : RatGt(fitnesses[i], fitnesses[1])

\* what a gene is a gene of: its requirement and whether it is fixed
GeneKey(gene) ==
    <<gene.batch_id, gene.subject_id, gene.faculty_id, gene.is_fixed>>

\* C27: in every generation all individuals of the population have the same
\* length, and the gene at index i has the same batch, subject, faculty and
\* is_fixed in every individual, whatever initialisation, tournament
\* selection, crossover and mutation have produced.
C27_GenesAligned ==
    \A a, b \in 1..Len(population) :
        /\ Len(population[a]) = Len(population[b])
        /\ \A i \in 1..Len(population[a]) :
               GeneKey(population[a][i]) = GeneKey(population[b][i])

\* a bred generation of two individuals that differ, their genes being of
\* two requirements
C27_Witness ==
    /\ gaPc = "loop"
    /\ generation >= 1
    /\ Len(population) >= 2
    /\ population[1] # population[2]
    /\ \E i, j \in 1..Len(population[1]) :
           /\ ~population[1][i].is_fixed
           /\ ~population[1][j].is_fixed
           /\ GeneKey(population[1][i]) # GeneKey(population[1][j])

\* C28: from its initialisation on, the population has exactly
\* population_size individuals at the start of every generation and when the
\* loop is left, whatever elite_size >= 0 is: odd, even, equal to or larger
\* than population_size.
C28_PopulationSizeKept ==
    (gaPc # "constructed") => (Len(population) = self.population_size)

\* a generation was bred from one elite and an odd number of further places,
\* and one from more elites than the population has individuals
C28_Witness ==
    /\ gaPc = "loop"
    /\ generation >= 1
    /\ \/ self.elite_size > self.population_size
       \/ (self.population_size - self.elite_size) % 2 = 1

\* C29: with elite_size >= 1 the best values of the trace never decrease from
\* one generation to the next.
C29_BestNonDecreasingWithElite ==
    (self.elite_size >= 1) =>
        \A g \in 1..(Len(fitness_history) - 1) :
            RatGe(fitness_history[g + 1].best, fitness_history[g].best)

\* with an elite, a generation scored a best strictly above the one before
C29_Witness ==
    /\ self.elite_size >= 1
    /\ \E g \in 1..(Len(fitness_history) - 1) :
           RatGt(fitness_history[g + 1].best, fitness_history[g].best)

\* C26: the GPU fitness backend gives every individual the score the CPU
\* fitness function gives it, under every table of enabled constraints and
\* weights
C26_GpuFitnessEqualsCpu ==
    \A i \in 1..Len(population) :
        _calculate_fitness_gpu(population)[i] = _calculate_fitness(population[i])

====
